---- MODULE Spec2Model ----
(***************************************************************************)
(* The biometric-capture Plan (src/src/plans/biometric_capture/mod.rs)     *)
(* running on the Orb broker (src/src/brokers/orb.rs).                      *)
(*                                                                         *)
(* One session is modelled: Plan::new and Orb::builder().build() give the  *)
(* initial state, Plan::run is run_pre, then the broker loop (one action    *)
(* per agent polled in a pass, then poll_extra), run_check after every      *)
(* Break, and run_post at the end.  The two model agents (IR-net behind     *)
(* mega_agent_one, RGB-net / face identifier behind mega_agent_two) are     *)
(* the environment: a bounded inbox, one output per input.                  *)
(*                                                                         *)
(* Option<T> is a sequence of length at most one: None is <<>> and Some(x)  *)
(* is <<x>>.                                                                *)
(***************************************************************************)
EXTENDS Integers, Sequences, FiniteSets, TLC

\* ------------------------------------------------------------- bounds

\* Longest wavelength list given to Plan::new.
MaxWavelengths == 1
\* Camera frames (IR eye and RGB together) delivered in one session.
MaxFrames == 4
\* Capacity of a model agent's inbox (the AgentCell input channel).
InboxCap == 1
\* Largest iris score / face score an estimate carries.
MaxScore == 2
\* Largest sharpness an IR estimate carries.
MaxSharpness == 1
\* Largest mirror offset the eye PID controller emits.
MaxOffset == 1
\* Longest wavelength list given to Plan::new when it is checked alone.
NewMaxLen == 3
\* Latest time (ms) of an update_occlusion call when it is checked alone.
MaxNow == 1200
\* Longest mirror_offsets list given to continuous_calibration when it is
\* checked alone.
CalMaxLen == 3

\* ---------------------------------------------------- program constants

\* consts::IRIS_SCORE_MIN, on the model's integer score scale.
IRIS_SCORE_MIN == 2
\* consts::THRESHOLD_OCCLUSION_30, on a scale where the threshold is 1000.
THRESHOLD_OCCLUSION_30 == 1000
\* OCCLUSION_INDICATOR_MIN_TIME_INTERVAL, in ms.
OCCLUSION_INDICATOR_MIN_TIME_INTERVAL == 450
\* consts::CONTINUOUS_CALIBRATION_REDUCER, in tenths: a fixed positive factor.
CONTINUOUS_CALIBRATION_REDUCER == 5
\* consts::DEFAULT_IR_LED_WAVELENGTH and consts::DEFAULT_IR_LED_DURATION.
DEFAULT_IR_LED_WAVELENGTH == "L850"
DEFAULT_IR_LED_DURATION == 10
\* Frame means on a two-point scale: 0 is outside IRIS_BRIGHTNESS_RANGE, 1 inside.
Means == {0, 1}
IRIS_BRIGHTNESS_RANGE == {1}

\* ------------------------------------------------------------ Option

None == <<>>
Some(x) == <<x>>
IsSome(o) == Len(o) = 1
IsNone(o) == Len(o) = 0
Unwrap(o) == o[1]

\* ------------------------------------------------------------- values

\* ir_net::EstimateOutput: the fields the Plan reads.
IrEstimates ==
    [perceived_side : {None, Some(0), Some(1)},
     score : 0..MaxScore,
     sharpness : 0..MaxSharpness]

\* rgb_net::EstimateOutput: primary() is None, or a prediction whose bbox
\* is_correct() or not.
RgbEstimates == [primary : {None, Some([bbox_correct |-> TRUE]), Some([bbox_correct |-> FALSE])}]

\* face_identifier::types::IsValidOutput.
FaceOutputs ==
    [is_valid : {None, Some(TRUE), Some(FALSE)},
     score : {None} \cup {Some(s) : s \in 0..MaxScore}]

\* mirror::Point values the eye PID controller emits.
Offsets == 1..MaxOffset

\* The broker's declared agent order (the fields of struct Orb), restricted
\* to the agents whose outputs reach the modelled state; poll_extra ends a pass.
PosIrEyeCamera == 1
PosRgbCamera == 2
PosMegaAgentOne == 3
PosMegaAgentTwo == 4
PosEyePid == 5
PosPollExtra == 6

\* ---------------------------------------------------------- variables

VARIABLES
    \* Plan::run
    pc,             \* "pre", "run", "check", "post", "done", "panic", "error";
                    \* "new" before Plan::new in the specification of Plan::new alone,
                    \* "occlusion" in the specification of update_occlusion alone,
                    \* "calibrate" before continuous_calibration in its own,
                    \* "facade" in the specifications of the Orb facade alone,
                    \* "exited" once Orb::shutdown has reached process::exit,
                    \* "fusion" in the specification of the fusion handler alone
    pass_pos,       \* position of the broker pass while pc = "run"
    \* struct Plan
    objectives, target_left_eye, timed_out,
    left_ir, left_rgb, right_ir, right_rgb, self_custody_candidate_rgb,
    max_sharpness, total_objectives, mirror_offsets,
    \* struct Orb
    orb_target_left_eye, only_rgb_net_frames,
    ir_net_enabled, rgb_net_enabled, ir_net_frames, rgb_net_frames,
    mirror_offset, enabled,
    \* the model agents and the clock behind port::Input::new
    clock, one_inbox, one_out, two_inbox, two_out,
    \* what the session returned, and what it did on the way
    output, calibrations,
    \* the last handler call: its inputs and what it returned
    last,
    \* history: the valid scored face-identifier output with the highest score
    \* dispatched so far (the earliest on ties), with its frame
    best_valid_seen,
    \* history of the IR-net pairing: try-sends that returned Ok, estimates
    \* paired with a frame, pairing misses, and whether a frame was dropped on a
    \* full inbox or the model answered with an error
    ir_stats,
    \* Plan::new's wavelengths argument, and config.thermal_camera
    wavelengths, thermal_camera,
    \* orb.calibration().mirror and what calibration.store() last persisted
    calibration, stored_calibration,
    \* the monotonic clock (ms), Plan::occlusion_indicator_on_time, the last
    \* orb.led.biometric_capture_occlusion(..) call, and (history) the time of
    \* the call that last turned the indicator from off to on
    now, occlusion_indicator_on_time, led_occlusion, occlusion_since,
    \* struct Orb: the IR LED settings
    ir_led_wavelength, ir_led_duration,
    \* struct Orb: mirror_point, and the fields of state_tx and
    \* rgb_camera_fake_port that still hold a value
    mirror_point, state_tx,
    \* history of an enable / disable round trip of the facade: its phase, the
    \* agent or model switch it is made on, and the state before the enable
    trip

planVars ==
    <<objectives, target_left_eye, timed_out, left_ir, left_rgb, right_ir, right_rgb,
      self_custody_candidate_rgb, max_sharpness, total_objectives, mirror_offsets>>
slotVars == <<left_ir, left_rgb, right_ir, right_rgb, self_custody_candidate_rgb>>
orbVars ==
    <<orb_target_left_eye, only_rgb_net_frames, ir_net_enabled, rgb_net_enabled,
      ir_net_frames, rgb_net_frames, mirror_offset, enabled>>
agentVars == <<clock, one_inbox, one_out, two_inbox, two_out>>
ledVars == <<ir_led_wavelength, ir_led_duration>>
facadeVars == <<mirror_point, state_tx, trip>>
unitVars ==
    <<wavelengths, thermal_camera, calibration, stored_calibration, now, occlusion_indicator_on_time,
      led_occlusion, occlusion_since, facadeVars>>
vars ==
    <<pc, pass_pos, planVars, orbVars, agentVars, output, calibrations, last, best_valid_seen,
      ir_stats, unitVars, ledVars>>

\* The agent cells run_pre enables whatever the configuration.
Agents ==
    {"mega_agent_one", "mega_agent_two", "ir_eye_camera", "ir_face_camera", "rgb_camera",
     "mirror", "distance", "ir_auto_focus", "eye_tracker", "eye_pid_controller",
     "ir_auto_exposure"}

\* The agent cells run_pre enables under config.thermal_camera = thermal.
PreEnabled(thermal) == Agents \cup (IF thermal THEN {"thermal_camera"} ELSE {})

NoCall == [op |-> "none"]

\* ------------------------------------------------------------ Plan::new

\* The wavelength list of length n: (wavelength, duration) pairs, all distinct.
IrLedNames == <<"L740", "L850", "L940">>
Wavelengths(n) ==
    [i \in 1..n |-> [ir_led_wavelength |-> IrLedNames[i], ir_led_duration |-> 10 * i]]

\* The same loops nested the other way round: both eyes for each wavelength.
NewObjectivesInterleaved(first_left, ws) ==
    [i \in 1..(2 * Len(ws)) |->
        [target_left_eye |-> IF i % 2 = 1 THEN first_left ELSE ~first_left,
         ir_led_wavelength |-> ws[(i + 1) \div 2].ir_led_wavelength,
         ir_led_duration |-> ws[(i + 1) \div 2].ir_led_duration,
         only_rgb_net_frames |-> (i % 2 = 1)]]

\* The two loops with the routing flags exchanged: the first eye's objectives
\* ask for fused frames, the second eye's for RGB-net frames only.
NewObjectivesFusionFirst(first_left, ws) ==
    [i \in 1..Len(ws) |->
        [target_left_eye |-> first_left,
         ir_led_wavelength |-> ws[i].ir_led_wavelength,
         ir_led_duration |-> ws[i].ir_led_duration,
         only_rgb_net_frames |-> FALSE]]
    \o
    [i \in 1..Len(ws) |->
        [target_left_eye |-> ~first_left,
         ir_led_wavelength |-> ws[i].ir_led_wavelength,
         ir_led_duration |-> ws[i].ir_led_duration,
         only_rgb_net_frames |-> TRUE]]

\* The objective queue Plan::new builds: the list once for the eye drawn by
\* random() with only_rgb_net_frames, then once for the other eye without.
NewObjectives(first_left, ws) ==
    [i \in 1..Len(ws) |->
        [target_left_eye |-> first_left,
         ir_led_wavelength |-> ws[i].ir_led_wavelength,
         ir_led_duration |-> ws[i].ir_led_duration,
         only_rgb_net_frames |-> TRUE]]
    \o
    [i \in 1..Len(ws) |->
        [target_left_eye |-> ~first_left,
         ir_led_wavelength |-> ws[i].ir_led_wavelength,
         ir_led_duration |-> ws[i].ir_led_duration,
         only_rgb_net_frames |-> FALSE]]

\* The fields Plan::new sets that do not depend on its arguments.
InitPlan ==
    /\ target_left_eye = FALSE
    /\ timed_out = FALSE
    /\ left_ir = None /\ left_rgb = None /\ right_ir = None /\ right_rgb = None
    /\ self_custody_candidate_rgb = None
    /\ max_sharpness = 0
    /\ occlusion_indicator_on_time = None

\* Orb::builder().build(), the idle model agents and the empty histories.
InitOrb ==
    /\ pass_pos = 0
    /\ orb_target_left_eye = FALSE
    /\ only_rgb_net_frames = TRUE
    /\ ir_net_enabled = FALSE /\ rgb_net_enabled = FALSE
    /\ ir_net_frames = <<>> /\ rgb_net_frames = <<>>
    /\ mirror_offset = None
    /\ enabled = {}
    /\ clock = 0
    /\ one_inbox = <<>> /\ one_out = <<>> /\ two_inbox = <<>> /\ two_out = <<>>
    /\ output = None
    /\ calibrations = 0
    /\ last = NoCall
    /\ best_valid_seen = None
    /\ ir_stats = [sent |-> 0, paired |-> 0, missed |-> 0, dropped |-> FALSE, errors |-> FALSE]
    /\ now = 0
    /\ led_occlusion = None
    /\ occlusion_since = None
    /\ ir_led_wavelength = DEFAULT_IR_LED_WAVELENGTH
    /\ ir_led_duration = DEFAULT_IR_LED_DURATION
    /\ mirror_point = None
    /\ trip = [phase |-> "idle"]

\* The mirror calibration before any re-calibration, nothing persisted yet.
InitCalibration ==
    /\ calibration = [horizontal_offset |-> 0, vertical_offset |-> 0]
    /\ stored_calibration = None

\* A session: Plan::new has returned and Plan::run is about to start.
Init ==
    /\ pc = "pre"
    /\ \E first_left \in BOOLEAN, n \in 1..MaxWavelengths :
          /\ wavelengths = Wavelengths(n)
          /\ objectives = NewObjectives(first_left, wavelengths)
    /\ total_objectives = Len(objectives)
    /\ mirror_offsets = <<>>
    /\ thermal_camera \in BOOLEAN
    /\ state_tx = {}
    /\ InitPlan
    /\ InitOrb
    /\ InitCalibration

\* Plan::new alone, on any wavelength list of up to NewMaxLen
\* (wavelength, duration) pairs, repetitions included.
WavelengthPairs == [ir_led_wavelength : {"L740", "L850"}, ir_led_duration : {10, 20}]
SeqsUpTo(S, n) == UNION {[1..k -> S] : k \in 0..n}

InitNew ==
    /\ pc = "new"
    /\ wavelengths \in SeqsUpTo(WavelengthPairs, NewMaxLen)
    /\ objectives = <<>>
    /\ total_objectives = 0
    /\ mirror_offsets = <<>>
    /\ thermal_camera = FALSE
    /\ state_tx = {}
    /\ InitPlan
    /\ InitOrb
    /\ InitCalibration

PlanNew ==
    /\ pc = "new"
    /\ \E random \in BOOLEAN : objectives' = NewObjectives(random, wavelengths)
    /\ total_objectives' = Len(objectives')
    /\ pc' = "pre"
    /\ UNCHANGED <<pass_pos, target_left_eye, timed_out, slotVars, max_sharpness, mirror_offsets,
                   orbVars, agentVars, output, calibrations, last, best_valid_seen, ir_stats,
                   unitVars>>
    /\ UNCHANGED ledVars

NextNew == PlanNew

SpecNew == InitNew /\ [][NextNew]_vars

\* ------------------------------------------------ Plan::update_occlusion

\* What occlusion_30_filter.add returns: below the lower hysteresis threshold,
\* between the two, above the upper one.  The filter is left open: any of the
\* three at any call.
LowPassValues == {950, 975, 1000, 1025, 1050}
\* Time between two update_occlusion calls (ms).
CallGaps == {50, 150, 450}

\* The test with the one threshold THRESHOLD_OCCLUSION_30 in both directions.
OcclusionDetectedOneThreshold(on_time, low_pass, t) ==
    IF IsSome(on_time)
    THEN \/ low_pass < THRESHOLD_OCCLUSION_30
         \/ t - Unwrap(on_time) < OCCLUSION_INDICATOR_MIN_TIME_INTERVAL
    ELSE low_pass < THRESHOLD_OCCLUSION_30

\* The hysteresis test with && where the code has ||.
OcclusionDetectedBoth(on_time, low_pass, t) ==
    IF IsSome(on_time)
    THEN /\ low_pass * 1000 < THRESHOLD_OCCLUSION_30 * 1025
         /\ t - Unwrap(on_time) < OCCLUSION_INDICATOR_MIN_TIME_INTERVAL
    ELSE low_pass * 1000 < THRESHOLD_OCCLUSION_30 * 975

\* occlusion_detected: hysteresis and a minimum pulse time; t is the time of
\* the call, so t - on_time is occlusion_indicator_on_time.elapsed().
OcclusionDetected(on_time, low_pass, t) ==
    IF IsSome(on_time)
    THEN \/ low_pass * 1000 < THRESHOLD_OCCLUSION_30 * 1025
         \/ t - Unwrap(on_time) < OCCLUSION_INDICATOR_MIN_TIME_INTERVAL
    ELSE low_pass * 1000 < THRESHOLD_OCCLUSION_30 * 975

InitOcclusion ==
    /\ pc = "occlusion"
    /\ wavelengths = <<>>
    /\ objectives = <<>>
    /\ total_objectives = 0
    /\ mirror_offsets = <<>>
    /\ thermal_camera = FALSE
    /\ state_tx = {}
    /\ InitPlan
    /\ InitOrb
    /\ InitCalibration

\* One update_occlusion call, at time now'.
UpdateOcclusion ==
    /\ pc = "occlusion"
    /\ \E gap \in CallGaps, low_pass \in LowPassValues :
          /\ now + gap <= MaxNow
          /\ now' = now + gap
          /\ last' = [op |-> "update_occlusion", low_pass |-> low_pass]
          /\ IF OcclusionDetected(occlusion_indicator_on_time, low_pass, now')
             THEN /\ occlusion_indicator_on_time' =
                        IF IsSome(occlusion_indicator_on_time)
                        THEN occlusion_indicator_on_time ELSE Some(now')
                  /\ led_occlusion' = Some(TRUE)
                  /\ occlusion_since' =
                        IF led_occlusion = Some(TRUE) THEN occlusion_since ELSE Some(now')
             ELSE /\ led_occlusion' = Some(FALSE)
                  /\ occlusion_indicator_on_time' = None
                  /\ occlusion_since' = None
    /\ UNCHANGED <<pc, pass_pos, planVars, orbVars, agentVars, output, calibrations,
                   best_valid_seen, ir_stats, wavelengths, thermal_camera, calibration,
                   stored_calibration>>
    /\ UNCHANGED <<ledVars, facadeVars>>

NextOcclusion == UpdateOcclusion

SpecOcclusion == InitOcclusion /\ [][NextOcclusion]_vars

\* ------------------------------------------------ continuous_calibration

\* mirror::Point samples, in hundredths; the calibration offsets are in
\* thousandths (hundredths times the reducer's tenths).
Horizontals == {-10, 0, 5, 30}
Verticals == {-20, 0, 20, 50, 90}
Points == [horizontal : Horizontals, vertical : Verticals]

Abs(x) == IF x < 0 THEN -x ELSE x

RECURSIVE MinByValue(_)
\* min() of the values themselves, the sign taken into the order.
MinByValue(xs) ==
    IF Len(xs) = 1
    THEN xs[1]
    ELSE LET best == MinByValue(SubSeq(xs, 1, Len(xs) - 1)) IN
         IF xs[Len(xs)] < best THEN xs[Len(xs)] ELSE best

RECURSIVE MinByKeyAbs(_)
\* Iterator::min_by_key(|x| OrderedFloat(x.abs())) on a non-empty list: the
\* element of least magnitude, the first of them when several are equally small.
MinByKeyAbs(xs) ==
    IF Len(xs) = 1
    THEN xs[1]
    ELSE LET best == MinByKeyAbs(SubSeq(xs, 1, Len(xs) - 1)) IN
         IF Abs(xs[Len(xs)]) < Abs(best) THEN xs[Len(xs)] ELSE best

InitContinuousCalibration ==
    /\ pc = "calibrate"
    /\ mirror_offsets \in SeqsUpTo(Points, CalMaxLen)
    /\ calibration \in {[horizontal_offset |-> 0, vertical_offset |-> 0],
                         [horizontal_offset |-> 1000, vertical_offset |-> -1000]}
    /\ stored_calibration = None
    /\ wavelengths = <<>>
    /\ objectives = <<>>
    /\ total_objectives = 0
    /\ thermal_camera = FALSE
    /\ state_tx = {}
    /\ InitPlan
    /\ InitOrb

\* continuous_calibration(orb, mirror_offsets): the first expect panics on an
\* empty list; otherwise the adjusted calibration is stored and handed to
\* orb.recalibrate.
ContinuousCalibration ==
    /\ pc = "calibrate"
    /\ IF mirror_offsets = <<>>
       THEN /\ pc' = "panic"
            /\ UNCHANGED <<calibration, stored_calibration>>
       ELSE LET horizontal == MinByKeyAbs([i \in 1..Len(mirror_offsets) |->
                                              mirror_offsets[i].horizontal])
                vertical == MinByKeyAbs([i \in 1..Len(mirror_offsets) |->
                                            mirror_offsets[i].vertical]) IN
            /\ calibration' =
                  [horizontal_offset |-> calibration.horizontal_offset
                                         + horizontal * CONTINUOUS_CALIBRATION_REDUCER,
                   vertical_offset |-> calibration.vertical_offset
                                       + vertical * CONTINUOUS_CALIBRATION_REDUCER]
            /\ stored_calibration' = Some(calibration')
            /\ pc' = "done"
    /\ UNCHANGED <<pass_pos, planVars, orbVars, agentVars, output, calibrations, last,
                   best_valid_seen, ir_stats, wavelengths, thermal_camera, now,
                   occlusion_indicator_on_time, led_occlusion, occlusion_since>>
    /\ UNCHANGED <<ledVars, facadeVars>>

NextContinuousCalibration == ContinuousCalibration

SpecCalibration == InitContinuousCalibration /\ [][NextContinuousCalibration]_vars

\* ------------------------------------- the Orb facade: cells and switches

\* The agent cells enabled and disabled one by one.
CellAgents == {"ir_eye_camera", "rgb_camera", "mega_agent_one", "mega_agent_two", "mirror"}

\* The facade fields a camera's construction takes: state_tx.* and
\* rgb_camera_fake_port.
StateTxFields ==
    {"ir_eye_camera_state", "ir_face_camera_state", "rgb_camera_state", "rgb_camera_fake_port"}

\* init_ir_eye_camera, init_ir_face_camera, init_rgb_camera: the fields taken.
InitTakes(a) ==
    IF a = "ir_eye_camera" THEN {"ir_eye_camera_state"}
    ELSE IF a = "ir_face_camera" THEN {"ir_face_camera_state"}
    ELSE IF a = "rgb_camera" THEN {"rgb_camera_state", "rgb_camera_fake_port"}
    ELSE {}

\* What the facade shows of its cells and switches.
Observable ==
    [enabled |-> enabled, ir_net_enabled |-> ir_net_enabled,
     rgb_net_enabled |-> rgb_net_enabled, only_rgb_net_frames |-> only_rgb_net_frames,
     state_tx |-> state_tx]

\* The round-trip history: an enable starts a trip, the matching disable right
\* after it ends the trip, anything else forgets it.
TripEnable(on) == trip' = [phase |-> "enabled", on |-> on, before |-> Observable]
TripDisable(on) ==
    trip' = IF trip.phase = "enabled" /\ trip.on = on
            THEN [trip EXCEPT !.phase = "restored"]
            ELSE [phase |-> "idle"]

\* Builder::build with enable_state_rx and a fake RGB port, or without.
InitFacade ==
    /\ pc = "facade"
    /\ wavelengths = <<>>
    /\ objectives = <<>>
    /\ total_objectives = 0
    /\ mirror_offsets = <<>>
    /\ thermal_camera = FALSE
    /\ InitPlan
    /\ InitCalibration
    /\ InitOrb
    /\ \E enable_state_rx \in BOOLEAN :
          state_tx = IF enable_state_rx THEN StateTxFields ELSE {}

\* What no operation on the cells and switches touches.
facadeRest ==
    <<pass_pos, planVars, orb_target_left_eye, ir_net_frames, rgb_net_frames, mirror_offset,
      agentVars, output, calibrations, last, best_valid_seen, ir_stats, wavelengths,
      thermal_camera, calibration, stored_calibration, now, occlusion_indicator_on_time,
      led_occlusion, occlusion_since, mirror_point, ledVars>>

\* enable_<agent>() on a disabled cell: the cell holds the agent that
\* init_<agent> constructs.
EnableAgent ==
    /\ pc = "facade"
    /\ \E a \in CellAgents \ enabled :
          /\ enabled' = enabled \cup {a}
          /\ state_tx' = state_tx \ InitTakes(a)
          /\ TripEnable(a)
    /\ UNCHANGED <<pc, ir_net_enabled, rgb_net_enabled, only_rgb_net_frames, facadeRest>>

\* disable_<agent>() on an enabled cell.
DisableAgent ==
    /\ pc = "facade"
    /\ \E a \in enabled :
          /\ enabled' = enabled \ {a}
          /\ TripDisable(a)
    /\ UNCHANGED <<pc, ir_net_enabled, rgb_net_enabled, only_rgb_net_frames, state_tx,
                   facadeRest>>

\* Orb::enable_ir_net.
EnableIrNet ==
    /\ pc = "facade"
    /\ enabled' = enabled \cup {"mega_agent_one"}
    /\ ir_net_enabled' = TRUE
    /\ TripEnable("ir_net")
    /\ UNCHANGED <<pc, rgb_net_enabled, only_rgb_net_frames, state_tx, facadeRest>>

\* Orb::disable_ir_net.
DisableIrNet ==
    /\ pc = "facade"
    /\ ir_net_enabled' = FALSE
    /\ TripDisable("ir_net")
    /\ UNCHANGED <<pc, enabled, rgb_net_enabled, only_rgb_net_frames, state_tx, facadeRest>>

\* Orb::enable_rgb_net(only_rgb_net_frames).
EnableRgbNet ==
    /\ pc = "facade"
    /\ enabled' = enabled \cup {"mega_agent_two"}
    /\ rgb_net_enabled' = TRUE
    /\ only_rgb_net_frames' \in BOOLEAN
    /\ TripEnable("rgb_net")
    /\ UNCHANGED <<pc, ir_net_enabled, state_tx, facadeRest>>

\* disable_rgb_net clearing the flag only.
DisableRgbNetKeepsRouting ==
    /\ pc = "facade"
    /\ rgb_net_enabled' = FALSE
    /\ TripDisable("rgb_net")
    /\ UNCHANGED <<pc, enabled, ir_net_enabled, only_rgb_net_frames, state_tx, facadeRest>>

\* Orb::disable_rgb_net.
DisableRgbNet ==
    /\ pc = "facade"
    /\ only_rgb_net_frames' = TRUE
    /\ rgb_net_enabled' = FALSE
    /\ TripDisable("rgb_net")
    /\ UNCHANGED <<pc, enabled, ir_net_enabled, state_tx, facadeRest>>

NextFacade ==
    \/ EnableAgent
    \/ DisableAgent
    \/ EnableIrNet
    \/ DisableIrNet
    \/ EnableRgbNet
    \/ DisableRgbNet

SpecFacade == InitFacade /\ [][NextFacade]_vars

\* ------------------------------- the Orb facade: IR LED, cameras, mirror

\* The cells these operations look at.
ActuatorAgents == {"ir_eye_camera", "ir_face_camera", "ir_auto_exposure", "mirror"}
IrLeds == {"None", "L740", "L850"}
Durations == {0, 10, 20}
Gains == {3}
\* mirror::Point values, added as numbers; Point::default() is 0.
MirrorPoints == 1..MaxOffset

\* Orb::exposure_range, its bounds by name.
ExposureRange(w) ==
    IF w = "L740"
    THEN <<"IR_LED_MIN_DURATION", "IR_LED_MAX_DURATION_740NM">>
    ELSE <<"IR_LED_MIN_DURATION", "IR_LED_MAX_DURATION">>

\* set_ir_duration sending IrLedDuration whatever the wavelength.
DurationCommandPlain(w, d) == [cmd |-> "IrLedDuration", value |-> d]

\* set_ir_duration: the MCU command for the active wavelength.
DurationCommand(w, d) ==
    IF w = "L740"
    THEN [cmd |-> "IrLedDuration740nm", value |-> d]
    ELSE [cmd |-> "IrLedDuration", value |-> d]

\* The set point without the stored offset.
SetPointValueNoOffset(point, offset) == point

\* mirror_point + self.mirror_offset.unwrap_or_default()
SetPointValue(point, offset) == point + (IF IsSome(offset) THEN Unwrap(offset) ELSE 0)

\* Builder::build, then any cells enabled.
InitActuators ==
    /\ pc = "facade"
    /\ wavelengths = <<>>
    /\ objectives = <<>>
    /\ total_objectives = 0
    /\ mirror_offsets = <<>>
    /\ thermal_camera = FALSE
    /\ state_tx = {}
    /\ InitPlan
    /\ InitCalibration
    /\ pass_pos = 0
    /\ orb_target_left_eye = FALSE
    /\ only_rgb_net_frames = TRUE
    /\ ir_net_enabled = FALSE /\ rgb_net_enabled = FALSE
    /\ ir_net_frames = <<>> /\ rgb_net_frames = <<>>
    /\ mirror_offset = None
    /\ enabled \in SUBSET ActuatorAgents
    /\ clock = 0
    /\ one_inbox = <<>> /\ one_out = <<>> /\ two_inbox = <<>> /\ two_out = <<>>
    /\ output = None
    /\ calibrations = 0
    /\ last = NoCall
    /\ best_valid_seen = None
    /\ ir_stats = [sent |-> 0, paired |-> 0, missed |-> 0, dropped |-> FALSE, errors |-> FALSE]
    /\ now = 0
    /\ led_occlusion = None
    /\ occlusion_since = None
    /\ ir_led_wavelength = DEFAULT_IR_LED_WAVELENGTH
    /\ ir_led_duration = DEFAULT_IR_LED_DURATION
    /\ mirror_point = None
    /\ trip = [phase |-> "idle"]

\* What none of these operations touches.
actuatorRest ==
    <<pc, pass_pos, planVars, orb_target_left_eye, only_rgb_net_frames, ir_net_enabled,
      rgb_net_enabled, ir_net_frames, rgb_net_frames, enabled, agentVars, output, calibrations,
      best_valid_seen, ir_stats, wavelengths, thermal_camera, calibration, stored_calibration,
      now, occlusion_indicator_on_time, led_occlusion, occlusion_since, state_tx, trip>>

\* set_ir_wavelength leaving the MCU alone when the wavelength is already set.
SetIrWavelengthOnChange ==
    /\ pc = "facade"
    /\ \E w \in IrLeds, mcu_ok \in BOOLEAN, agent_ok \in BOOLEAN :
          LET same == w = ir_led_wavelength
              to_agent == "ir_auto_exposure" \in enabled /\ ~same IN
          /\ ir_led_wavelength' = IF mcu_ok \/ same THEN w ELSE ir_led_wavelength
          /\ last' = [op |-> "set_ir_wavelength", arg |-> w,
                      mcu |-> IF mcu_ok /\ ~same THEN <<[cmd |-> "IrLed", value |-> w]>>
                              ELSE <<>>,
                      sent |-> IF (mcu_ok \/ same) /\ to_agent /\ agent_ok
                               THEN <<[to |-> "ir_auto_exposure", cmd |-> "SetExposureRange",
                                       value |-> ExposureRange(w)]>>
                               ELSE <<>>,
                      plan |-> FALSE,
                      returned |-> IF same \/ (mcu_ok /\ (to_agent => agent_ok))
                                   THEN "Ok" ELSE "Err"]
    /\ UNCHANGED <<ir_led_duration, mirror_point, mirror_offset, actuatorRest>>

\* set_ir_wavelength recording the wavelength before it sends the MCU command.
SetIrWavelengthStoresFirst ==
    /\ pc = "facade"
    /\ \E w \in IrLeds, mcu_ok \in BOOLEAN, agent_ok \in BOOLEAN :
          LET to_agent == "ir_auto_exposure" \in enabled IN
          /\ ir_led_wavelength' = w
          /\ last' = [op |-> "set_ir_wavelength", arg |-> w,
                      mcu |-> IF mcu_ok THEN <<[cmd |-> "IrLed", value |-> w]>> ELSE <<>>,
                      sent |-> IF mcu_ok /\ to_agent /\ agent_ok
                               THEN <<[to |-> "ir_auto_exposure", cmd |-> "SetExposureRange",
                                       value |-> ExposureRange(w)]>>
                               ELSE <<>>,
                      plan |-> FALSE,
                      returned |-> IF mcu_ok /\ (to_agent => agent_ok) THEN "Ok" ELSE "Err"]
    /\ UNCHANGED <<ir_led_duration, mirror_point, mirror_offset, actuatorRest>>

\* Orb::set_ir_wavelength(w): the MCU command, the field, then the exposure
\* range to the auto-exposure agent if it is enabled.  Each send can fail.
SetIrWavelength ==
    /\ pc = "facade"
    /\ \E w \in IrLeds, mcu_ok \in BOOLEAN, agent_ok \in BOOLEAN :
          LET to_agent == "ir_auto_exposure" \in enabled IN
          /\ ir_led_wavelength' = IF mcu_ok THEN w ELSE ir_led_wavelength
          /\ last' = [op |-> "set_ir_wavelength", arg |-> w,
                      mcu |-> IF mcu_ok THEN <<[cmd |-> "IrLed", value |-> w]>> ELSE <<>>,
                      sent |-> IF mcu_ok /\ to_agent /\ agent_ok
                               THEN <<[to |-> "ir_auto_exposure", cmd |-> "SetExposureRange",
                                       value |-> ExposureRange(w)]>>
                               ELSE <<>>,
                      plan |-> FALSE,
                      returned |-> IF mcu_ok /\ (to_agent => agent_ok) THEN "Ok" ELSE "Err"]
    /\ UNCHANGED <<ir_led_duration, mirror_point, mirror_offset, actuatorRest>>

\* Orb::set_ir_duration(d).
SetIrDuration ==
    /\ pc = "facade"
    /\ \E d \in Durations, mcu_ok \in BOOLEAN :
          /\ ir_led_duration' = IF mcu_ok THEN d ELSE ir_led_duration
          /\ last' = [op |-> "set_ir_duration", arg |-> d,
                      mcu |-> IF mcu_ok THEN <<DurationCommand(ir_led_wavelength, d)>> ELSE <<>>,
                      sent |-> <<>>, plan |-> FALSE,
                      returned |-> IF mcu_ok THEN "Ok" ELSE "Err"]
    /\ UNCHANGED <<ir_led_wavelength, mirror_point, mirror_offset, actuatorRest>>

\* The SetGain and SetExposure commands handle_ir_auto_exposure sends to the
\* IR cameras that are enabled, the eye camera first.
CameraCommands(gain, exposure) ==
    (IF "ir_eye_camera" \in enabled
     THEN <<[to |-> "ir_eye_camera", cmd |-> "SetGain", value |-> gain],
            [to |-> "ir_eye_camera", cmd |-> "SetExposure", value |-> exposure]>>
     ELSE <<>>)
    \o
    (IF "ir_face_camera" \in enabled
     THEN <<[to |-> "ir_face_camera", cmd |-> "SetGain", value |-> gain],
            [to |-> "ir_face_camera", cmd |-> "SetExposure", value |-> exposure]>>
     ELSE <<>>)

\* Orb::handle_ir_auto_exposure: the first failed send ends it; it never calls
\* the Plan.
HandleIrAutoExposure ==
    /\ pc = "facade"
    /\ \E gain \in Gains, exposure \in Durations, mcu_ok \in BOOLEAN :
       \E delivered \in 0..Len(CameraCommands(gain, exposure)) :
          LET commands == CameraCommands(gain, exposure)
              cameras_ok == delivered = Len(commands) IN
          /\ ir_led_duration' = IF cameras_ok /\ mcu_ok THEN exposure ELSE ir_led_duration
          /\ last' = [op |-> "handle_ir_auto_exposure",
                      arg |-> [gain |-> gain, exposure |-> exposure],
                      mcu |-> IF cameras_ok /\ mcu_ok
                              THEN <<DurationCommand(ir_led_wavelength, exposure)>> ELSE <<>>,
                      sent |-> SubSeq(commands, 1, delivered),
                      plan |-> FALSE,
                      returned |-> IF cameras_ok /\ mcu_ok THEN "Ok" ELSE "Err"]
    /\ UNCHANGED <<ir_led_wavelength, mirror_point, mirror_offset, actuatorRest>>

\* Orb::handle_eye_tracker.
HandleEyeTracker ==
    /\ pc = "facade"
    /\ \E point \in MirrorPoints, agent_ok \in BOOLEAN :
          /\ mirror_point' = Some(point)
          /\ last' = [op |-> "handle_eye_tracker", arg |-> point, mcu |-> <<>>,
                      sent |-> IF "mirror" \in enabled /\ agent_ok
                               THEN <<[to |-> "mirror", cmd |-> "SetPoint",
                                       value |-> SetPointValue(point, mirror_offset)]>>
                               ELSE <<>>,
                      plan |-> FALSE,
                      returned |-> IF "mirror" \in enabled /\ ~agent_ok THEN "Err" ELSE "Ok"]
    /\ UNCHANGED <<ir_led_wavelength, ir_led_duration, mirror_offset, actuatorRest>>

\* Orb::handle_eye_pid_controller: nothing is sent while no mirror_point is stored.
HandleEyePidController ==
    /\ pc = "facade"
    /\ \E offset \in MirrorPoints, agent_ok \in BOOLEAN :
          LET sends == "mirror" \in enabled /\ IsSome(mirror_point) IN
          /\ mirror_offset' = Some(offset)
          /\ last' = [op |-> "handle_eye_pid_controller", arg |-> offset, mcu |-> <<>>,
                      sent |-> IF sends /\ agent_ok
                               THEN <<[to |-> "mirror", cmd |-> "SetPoint",
                                       value |-> Unwrap(mirror_point) + offset]>>
                               ELSE <<>>,
                      plan |-> FALSE,
                      returned |-> IF sends /\ ~agent_ok THEN "Err" ELSE "Ok"]
    /\ UNCHANGED <<ir_led_wavelength, ir_led_duration, mirror_point, actuatorRest>>

\* The steps of Orb::shutdown in the order of the code.
ShutdownSteps ==
    <<"datadog", "melody", "store", "sync", "mcu_shutdown", "dbus_connection",
      "supervisor_proxy", "schedule_shutdown", "exit">>

\* The steps that end in `?`: sync() and process::exit(0) cannot fail.
ShutdownFallible == {1, 2, 3, 5, 6, 7, 8}

\* Orb::shutdown: the steps run in order up to the first one that fails, whose
\* error is returned at once; process::exit is reached only if none fails.
Shutdown ==
    /\ pc = "facade"
    /\ \E failing \in {0} \cup ShutdownFallible :
          LET done == IF failing = 0 THEN ShutdownSteps
                      ELSE SubSeq(ShutdownSteps, 1, failing - 1) IN
          /\ last' = [op |-> "shutdown",
                      arg |-> IF failing = 0 THEN "none" ELSE ShutdownSteps[failing],
                      steps |-> done,
                      mcu |-> IF failing = 0 \/ failing > 5
                              THEN <<[cmd |-> "Shutdown",
                                      value |-> "GRACEFUL_SHUTDOWN_MAX_DELAY_SECONDS"]>>
                              ELSE <<>>,
                      sent |-> <<>>, plan |-> FALSE,
                      returned |-> IF failing = 0 THEN "never" ELSE "Err"]
          /\ pc' = IF failing = 0 THEN "exited" ELSE pc
    /\ UNCHANGED <<pass_pos, planVars, orbVars, agentVars, output, calibrations,
                   best_valid_seen, ir_stats, unitVars, ledVars>>

NextActuators ==
    \/ Shutdown
    \/ SetIrWavelength
    \/ SetIrDuration
    \/ HandleIrAutoExposure
    \/ HandleEyeTracker
    \/ HandleEyePidController

SpecActuators == InitActuators /\ [][NextActuators]_vars

\* --------------------------------- the IR cameras and the IR LED they share

\* The other of the two IR cameras.
OtherIrCamera(cam) == IF cam = "ir_eye_camera" THEN "ir_face_camera" ELSE "ir_eye_camera"

\* Orb::set_ir_wavelength(w) as the sends it makes: the MCU command, then the
\* exposure range when the auto-exposure agent is enabled.
SetIrWavelengthSteps(w) ==
    <<[step |-> "mcu", cmd |-> "IrLed", value |-> w]>>
    \o (IF "ir_auto_exposure" \in enabled
        THEN <<[step |-> "agent", cmd |-> "SetExposureRange", value |-> ExposureRange(w)]>>
        ELSE <<>>)

\* Orb::set_ir_duration(d) under wavelength w as the send it makes.
SetIrDurationSteps(w, d) ==
    <<[step |-> "mcu", cmd |-> DurationCommand(w, d).cmd, value |-> d]>>

\* enable_ir_led sending the default settings whatever the recorded ones.
EnableIrLedStepsAlways ==
    SetIrWavelengthSteps(DEFAULT_IR_LED_WAVELENGTH)
    \o SetIrDurationSteps(DEFAULT_IR_LED_WAVELENGTH, DEFAULT_IR_LED_DURATION)

\* Orb::enable_ir_led: the default wavelength if none is recorded, the default
\* duration if the recorded one is 0.
EnableIrLedSteps ==
    LET w == IF ir_led_wavelength = "None" THEN DEFAULT_IR_LED_WAVELENGTH
                                         ELSE ir_led_wavelength IN
    (IF ir_led_wavelength = "None" THEN SetIrWavelengthSteps(DEFAULT_IR_LED_WAVELENGTH)
                                   ELSE <<>>)
    \o (IF ir_led_duration = 0 THEN SetIrDurationSteps(w, DEFAULT_IR_LED_DURATION) ELSE <<>>)

\* Orb::disable_ir_led.
DisableIrLedSteps == SetIrWavelengthSteps("None") \o SetIrDurationSteps("None", 0)

\* Orb::start_ir_eye_camera and Orb::start_ir_face_camera, step by step.
StartIrCameraSteps(cam) ==
    <<[step |-> "mcu", cmd |-> "Triggering", value |-> TRUE],
      [step |-> "mcu", cmd |-> "FrameRate", value |-> "IR_CAMERA_FRAME_RATE"],
      [step |-> "enable", cmd |-> cam, value |-> TRUE]>>
    \o EnableIrLedSteps
    \o <<[step |-> "camera", cmd |-> "Start", value |-> cam]>>

\* Orb::stop_ir_eye_camera and Orb::stop_ir_face_camera, step by step; the
\* IR LED is disabled when the other IR camera is not enabled.
StopIrCameraSteps(cam) ==
    <<[step |-> "camera", cmd |-> "stop", value |-> cam],
      [step |-> "disable", cmd |-> cam, value |-> FALSE]>>
    \o (IF OtherIrCamera(cam) \notin enabled THEN DisableIrLedSteps ELSE <<>>)
    \o <<[step |-> "mcu", cmd |-> "Triggering", value |-> FALSE]>>

\* The steps that can return an error: every send, and enabling an agent.
FallibleStep(s) == s.step # "disable"

\* The outcomes of a call: the number of steps that were made without error,
\* all of them or those before a step that failed.
Outcomes(steps) ==
    {Len(steps)} \cup {k \in 0..(Len(steps) - 1) : FallibleStep(steps[k + 1])}

\* The value the last command cmd among the first k steps carries, or the
\* value before when there is none.
RECURSIVE LastValue(_, _, _, _)
LastValue(steps, k, cmds, before) ==
    IF k = 0 THEN before
    ELSE IF steps[k].cmd \in cmds THEN steps[k].value
    ELSE LastValue(steps, k - 1, cmds, before)

\* The MCU commands among the first k steps.
McuCommands(steps, k) ==
    SelectSeq(SubSeq(steps, 1, k), LAMBDA s : s.step = "mcu")

\* What k steps of a start or stop call leave in the Orb.
IrCameraCall(op, cam, steps, k) ==
    /\ enabled' = LET on == LastValue(steps, k, {cam}, cam \in enabled)
                  IN  IF on THEN enabled \cup {cam} ELSE enabled \ {cam}
    /\ ir_led_wavelength' = LastValue(steps, k, {"IrLed"}, ir_led_wavelength)
    /\ ir_led_duration' =
          LastValue(steps, k, {"IrLedDuration", "IrLedDuration740nm"}, ir_led_duration)
    /\ last' = [op |-> op, camera |-> cam, others |-> OtherIrCamera(cam) \in enabled,
                mcu |-> McuCommands(steps, k), plan |-> FALSE,
                returned |-> IF k = Len(steps) THEN "Ok" ELSE "Err"]

\* Builder::build: no agent is enabled and the default IR LED settings are
\* recorded; the auto-exposure agent is started or not.
InitIrCameras ==
    /\ pc = "facade"
    /\ wavelengths = <<>>
    /\ objectives = <<>>
    /\ total_objectives = 0
    /\ mirror_offsets = <<>>
    /\ thermal_camera = FALSE
    /\ state_tx = {}
    /\ InitPlan
    /\ InitCalibration
    /\ pass_pos = 0
    /\ orb_target_left_eye = FALSE
    /\ only_rgb_net_frames = TRUE
    /\ ir_net_enabled = FALSE /\ rgb_net_enabled = FALSE
    /\ ir_net_frames = <<>> /\ rgb_net_frames = <<>>
    /\ mirror_offset = None
    /\ enabled \in SUBSET {"ir_auto_exposure"}
    /\ clock = 0
    /\ one_inbox = <<>> /\ one_out = <<>> /\ two_inbox = <<>> /\ two_out = <<>>
    /\ output = None
    /\ calibrations = 0
    /\ last = NoCall
    /\ best_valid_seen = None
    /\ ir_stats = [sent |-> 0, paired |-> 0, missed |-> 0, dropped |-> FALSE, errors |-> FALSE]
    /\ now = 0
    /\ led_occlusion = None
    /\ occlusion_since = None
    /\ ir_led_wavelength = DEFAULT_IR_LED_WAVELENGTH
    /\ ir_led_duration = DEFAULT_IR_LED_DURATION
    /\ mirror_point = None
    /\ trip = [phase |-> "idle"]

\* What starting and stopping the IR cameras does not touch.
irCameraRest ==
    <<pass_pos, planVars, orb_target_left_eye, only_rgb_net_frames, ir_net_enabled,
      rgb_net_enabled, ir_net_frames, rgb_net_frames, mirror_offset, agentVars, output,
      calibrations, best_valid_seen, ir_stats, unitVars>>

\* Orb::start_ir_eye_camera.
StartIrEyeCamera ==
    /\ pc = "facade"
    /\ \E k \in Outcomes(StartIrCameraSteps("ir_eye_camera")) :
          IrCameraCall("start_ir_camera", "ir_eye_camera",
                       StartIrCameraSteps("ir_eye_camera"), k)
    /\ UNCHANGED <<pc, irCameraRest>>

\* Orb::start_ir_face_camera.
StartIrFaceCamera ==
    /\ pc = "facade"
    /\ \E k \in Outcomes(StartIrCameraSteps("ir_face_camera")) :
          IrCameraCall("start_ir_camera", "ir_face_camera",
                       StartIrCameraSteps("ir_face_camera"), k)
    /\ UNCHANGED <<pc, irCameraRest>>

\* Orb::stop_ir_eye_camera; it panics when the camera is not enabled.
StopIrEyeCamera ==
    /\ pc = "facade"
    /\ IF "ir_eye_camera" \in enabled
       THEN /\ \E k \in Outcomes(StopIrCameraSteps("ir_eye_camera")) :
                  IrCameraCall("stop_ir_camera", "ir_eye_camera",
                               StopIrCameraSteps("ir_eye_camera"), k)
            /\ UNCHANGED pc
       ELSE /\ pc' = "panic"
            /\ last' = NoCall
            /\ UNCHANGED <<enabled, ledVars>>
    /\ UNCHANGED irCameraRest

\* Orb::stop_ir_face_camera; it panics when the camera is not enabled.
StopIrFaceCamera ==
    /\ pc = "facade"
    /\ IF "ir_face_camera" \in enabled
       THEN /\ \E k \in Outcomes(StopIrCameraSteps("ir_face_camera")) :
                  IrCameraCall("stop_ir_camera", "ir_face_camera",
                               StopIrCameraSteps("ir_face_camera"), k)
            /\ UNCHANGED pc
       ELSE /\ pc' = "panic"
            /\ last' = NoCall
            /\ UNCHANGED <<enabled, ledVars>>
    /\ UNCHANGED irCameraRest

NextIrCameras ==
    \/ StartIrEyeCamera
    \/ StartIrFaceCamera
    \/ StopIrEyeCamera
    \/ StopIrFaceCamera

SpecIrCameras == InitIrCameras /\ [][NextIrCameras]_vars

\* ------------------------------------------------- pure parts of the Plan

\* update_ux assigning the sharpness without f64::max.
MaxTakesFirst(a, b) == a

Max(a, b) == IF a >= b THEN a ELSE b

\* FrameInfo::new(estimate, frame); _timestamp is never read.
FrameInfo(estimate, frame) == [estimate |-> estimate, frame |-> frame]

\* i32::from(!self.target_left_eye)
ExpectedSide(tl) == IF ~tl THEN 1 ELSE 0

\* handle_ir_net, the perceived_side gate: None and a mismatch both skip.
PassesSideGate(estimate, tl) ==
    /\ IsSome(estimate.perceived_side)
    /\ ~(Unwrap(estimate.perceived_side) # ExpectedSide(tl))

\* valid_capture with the score compared by > where the code has >=.
ValidCaptureStrict(estimate, frame, auto_exposure_enabled) ==
    /\ estimate.score > IRIS_SCORE_MIN
    /\ (~auto_exposure_enabled \/ frame.mean \in IRIS_BRIGHTNESS_RANGE)

\* handle_ir_net: valid_capture.
ValidCapture(estimate, frame, auto_exposure_enabled) ==
    /\ estimate.score >= IRIS_SCORE_MIN
    /\ (~auto_exposure_enabled \/ frame.mean \in IRIS_BRIGHTNESS_RANGE)

\* The RGB acceptance test without the bbox.is_correct() filter.
RgbAcceptsAnyBbox(estimate) ==
    IsSome(estimate.primary)

\* handle_rgb_net: estimate.primary() is Some and its bbox is_correct().
RgbAccepts(estimate) ==
    /\ IsSome(estimate.primary)
    /\ Unwrap(estimate.primary).bbox_correct

\* handle_face_identifier: the score of the current candidate, 0.0 without one.
Highest(candidate) ==
    IF IsSome(candidate)
    THEN (IF IsSome(Unwrap(candidate).estimate.score)
          THEN Unwrap(Unwrap(candidate).estimate.score)
          ELSE 0)
    ELSE 0

\* handle_face_identifier: output.is_valid.map_or(false, |v| v)
FaceIsValid(out) == IsSome(out.is_valid) /\ Unwrap(out.is_valid)

\* The candidate test with the score compared by >= where the code has >.
FaceReplacesOnTie(out, candidate) ==
    /\ IsSome(out.score)
    /\ Unwrap(out.score) >= Highest(candidate)

\* handle_face_identifier: output.score.is_some_and(|s| s > highest)
FaceReplaces(out, candidate) ==
    /\ IsSome(out.score)
    /\ Unwrap(out.score) > Highest(candidate)

\* Plan::is_last_objective
IsLastObjective(objs) == objs = <<>>

\* poll_extra: the (rgb, ir) slots of the targeted eye.
TargetSlots(tl, l_ir, l_rgb, r_ir, r_rgb) ==
    IF tl THEN [rgb |-> l_rgb, ir |-> l_ir] ELSE [rgb |-> r_rgb, ir |-> r_ir]

\* The completion test without the is_last_objective / candidate checks.
CompletionBreakSlotsOnly(tl, l_ir, l_rgb, r_ir, r_rgb, candidate, objs) ==
    LET t == TargetSlots(tl, l_ir, l_rgb, r_ir, r_rgb) IN
    IsSome(t.rgb) /\ IsSome(t.ir)

\* poll_extra: the two returns of Break that come before the timeout is polled.
CompletionBreak(tl, l_ir, l_rgb, r_ir, r_rgb, candidate, objs) ==
    LET t == TargetSlots(tl, l_ir, l_rgb, r_ir, r_rgb) IN
    /\ IsSome(t.rgb) /\ IsSome(t.ir)
    /\ (~IsLastObjective(objs) \/ IsSome(candidate))

\* into_capture with the left RGB slot read where the right one belongs.
IntoCaptureLeftRgbTwice(l_ir, l_rgb, r_ir, r_rgb, candidate) ==
    IF IsNone(l_ir) THEN None
    ELSE IF IsNone(l_rgb) THEN None
    ELSE IF IsNone(r_ir) THEN None
    ELSE IF IsNone(l_rgb) THEN None
    ELSE IF IsNone(candidate) THEN None
    ELSE Some([eye_left |-> [ir |-> Unwrap(l_ir), rgb |-> Unwrap(l_rgb)],
               eye_right |-> [ir |-> Unwrap(r_ir), rgb |-> Unwrap(l_rgb)],
               face_self_custody_candidate |-> Unwrap(candidate).frame])

\* Plan::into_capture: each `?` returns None on an empty slot.
IntoCapture(l_ir, l_rgb, r_ir, r_rgb, candidate) ==
    IF IsNone(l_ir) THEN None
    ELSE IF IsNone(l_rgb) THEN None
    ELSE IF IsNone(r_ir) THEN None
    ELSE IF IsNone(r_rgb) THEN None
    ELSE IF IsNone(candidate) THEN None
    ELSE Some([eye_left |-> [ir |-> Unwrap(l_ir), rgb |-> Unwrap(l_rgb)],
               eye_right |-> [ir |-> Unwrap(r_ir), rgb |-> Unwrap(r_rgb)],
               face_self_custody_candidate |-> Unwrap(candidate).frame])

\* ------------------------------------------------ pending-frame queues

\* restore_frame! dropping the entries behind the matching one as well.
RECURSIVE RestoreFrameDrains(_, _)
RestoreFrameDrains(frames, ts) ==
    IF frames = <<>>
    THEN [entry |-> None, rest |-> <<>>]
    ELSE IF Head(frames).source_ts = ts
         THEN [entry |-> Some(Head(frames)), rest |-> <<>>]
         ELSE RestoreFrameDrains(Tail(frames), ts)

\* restore_frame! of handle_ir_net and handle_rgb_net: pop entries from the
\* front until one carries the output's source_ts; an empty queue is a miss.
RECURSIVE RestoreFrame(_, _)
RestoreFrame(frames, ts) ==
    IF frames = <<>>
    THEN [entry |-> None, rest |-> <<>>]
    ELSE IF Head(frames).source_ts = ts
         THEN [entry |-> Some(Head(frames)), rest |-> Tail(frames)]
         ELSE RestoreFrame(Tail(frames), ts)

\* restore_frame! of handle_fusion_rgb_net_face_identifier: the popped entry's
\* source_ts shadows the function's, so the test compares it with itself.
RECURSIVE RestoreFrameFusion(_, _)
RestoreFrameFusion(frames, ts) ==
    IF frames = <<>>
    THEN [entry |-> None, rest |-> <<>>]
    ELSE IF Head(frames).source_ts = Head(frames).source_ts
         THEN [entry |-> Some(Head(frames)), rest |-> Tail(frames)]
         ELSE RestoreFrameFusion(Tail(frames), ts)

\* tx.try_send on a model agent's inbox: Ok unless the inbox is full.
TrySendOk(inbox) == Len(inbox) < InboxCap

\* The results tx.try_send can give: Ok(()), an error that is_full(), or an
\* error that is not (the receiving end of the channel is gone).
TrySendResults(inbox) ==
    IF TrySendOk(inbox) THEN {"Ok", "Closed"} ELSE {"Full", "Closed"}

\* ------------------------------------------------------ Plan handlers

\* The LED pattern Plan::update_ux triggers beside the progress: the test for
\* the half comes first, the test for the end only if it failed.
UpdateUxPattern(len, total) ==
    IF len <= total \div 2 THEN "half_objectives_completed"
    ELSE IF len = 0 THEN "all_objectives_completed"
    ELSE "none"

\* Plan::handle_ir_net.  update_occlusion writes only the occlusion filter
\* fields and update_ux, beside max_sharpness, only drives the LED.
Plan_handle_ir_net(value, frame) ==
    /\ IF value.kind = "Estimate" /\ PassesSideGate(value.estimate, target_left_eye)
       THEN /\ max_sharpness' = Max(value.estimate.sharpness, max_sharpness)
            /\ IF ValidCapture(value.estimate, Unwrap(frame), "ir_auto_exposure" \in enabled)
               THEN IF target_left_eye
                    THEN /\ left_ir' = Some(FrameInfo(value.estimate, Unwrap(frame)))
                         /\ UNCHANGED right_ir
                    ELSE /\ right_ir' = Some(FrameInfo(value.estimate, Unwrap(frame)))
                         /\ UNCHANGED left_ir
               ELSE UNCHANGED <<left_ir, right_ir>>
       ELSE UNCHANGED <<max_sharpness, left_ir, right_ir>>
    /\ UNCHANGED <<objectives, target_left_eye, timed_out, left_rgb, right_rgb,
                   self_custody_candidate_rgb, total_objectives, mirror_offsets>>

\* Plan::handle_rgb_net: the slots it writes; it always returns Continue.
Plan_handle_rgb_net(value, frame) ==
    IF value.kind = "Estimate" /\ RgbAccepts(value.estimate)
    THEN IF target_left_eye
         THEN /\ left_rgb' = Some(FrameInfo(value.estimate, Unwrap(frame)))
              /\ UNCHANGED right_rgb
         ELSE /\ right_rgb' = Some(FrameInfo(value.estimate, Unwrap(frame)))
              /\ UNCHANGED left_rgb
    ELSE UNCHANGED <<left_rgb, right_rgb>>

\* Plan::handle_face_identifier: the candidate and orb.only_rgb_net_frames.
Plan_handle_face_identifier(value, frame) ==
    IF value.kind = "IsValidImage" /\ FaceIsValid(value.output)
    THEN /\ IF FaceReplaces(value.output, self_custody_candidate_rgb)
            THEN self_custody_candidate_rgb' = Some(FrameInfo(value.output, Unwrap(frame)))
            ELSE UNCHANGED self_custody_candidate_rgb
         /\ only_rgb_net_frames' = TRUE
    ELSE UNCHANGED <<self_custody_candidate_rgb, only_rgb_net_frames>>

\* set_next_objective reading the front of the queue without popping it.
SetNextObjectiveKeepsQueue ==
    /\ objectives' = objectives
    /\ max_sharpness' = 0
    /\ target_left_eye' = Head(objectives).target_left_eye
    /\ orb_target_left_eye' = Head(objectives).target_left_eye
    /\ ir_led_wavelength' = Head(objectives).ir_led_wavelength
    /\ ir_led_duration' = Head(objectives).ir_led_duration
    /\ only_rgb_net_frames' = Head(objectives).only_rgb_net_frames

\* Plan::set_next_objective when the queue is not empty (it returns true).
SetNextObjective ==
    /\ objectives' = Tail(objectives)
    /\ max_sharpness' = 0
    /\ target_left_eye' = Head(objectives).target_left_eye
    /\ orb_target_left_eye' = Head(objectives).target_left_eye
    /\ ir_led_wavelength' = Head(objectives).ir_led_wavelength
    /\ ir_led_duration' = Head(objectives).ir_led_duration
    /\ only_rgb_net_frames' = Head(objectives).only_rgb_net_frames

\* ---------------------------------------------------------- Plan::run

\* Plan::run_pre.  enable_rgb_net(false) and start_rgb_camera write
\* only_rgb_net_frames before set_next_objective writes it last.
RunPre ==
    /\ pc = "pre"
    /\ objectives # <<>>
    /\ enabled' = PreEnabled(thermal_camera)
    /\ ir_net_enabled' = TRUE
    /\ rgb_net_enabled' = TRUE
    /\ SetNextObjective
    /\ pc' = "run"
    /\ pass_pos' = PosIrEyeCamera
    /\ last' = NoCall
    /\ UNCHANGED <<timed_out, slotVars, total_objectives, mirror_offsets, ir_net_frames,
                   rgb_net_frames, mirror_offset, agentVars, output, calibrations, best_valid_seen>>
    /\ UNCHANGED <<ir_stats, unitVars>>

\* run_check emptying the eye slots when it switches to the next objective.
RunCheckClearsSlots ==
    /\ pc = "check"
    /\ last' = NoCall
    /\ IF IsNone(mirror_offset)
       THEN /\ pc' = "panic"
            /\ UNCHANGED <<pass_pos, planVars, orbVars, ledVars>>
       ELSE /\ mirror_offsets' = Append(mirror_offsets, Unwrap(mirror_offset))
            /\ IF timed_out \/ objectives = <<>>
               THEN /\ pc' = "post"
                    /\ UNCHANGED <<pass_pos, objectives, max_sharpness, target_left_eye,
                                   orb_target_left_eye, only_rgb_net_frames, ledVars, slotVars>>
               ELSE /\ SetNextObjective
                    /\ pc' = "run"
                    /\ pass_pos' = PosIrEyeCamera
                    /\ left_ir' = None /\ left_rgb' = None
                    /\ right_ir' = None /\ right_rgb' = None
                    /\ UNCHANGED self_custody_candidate_rgb
            /\ UNCHANGED <<timed_out, total_objectives, ir_net_enabled,
                           rgb_net_enabled, ir_net_frames, rgb_net_frames, mirror_offset,
                           enabled>>
    /\ UNCHANGED <<agentVars, output, calibrations, best_valid_seen>>
    /\ UNCHANGED <<ir_stats, unitVars>>

\* run_check pushing the mirror-offset sample only when it goes on to the next
\* objective, after the tests that end the session.
RunCheckSamplesOnSwitch ==
    /\ pc = "check"
    /\ last' = NoCall
    /\ IF IsNone(mirror_offset)
       THEN /\ pc' = "panic"
            /\ UNCHANGED <<pass_pos, planVars, orbVars, ledVars>>
       ELSE /\ IF timed_out \/ objectives = <<>>
               THEN /\ pc' = "post"
                    /\ UNCHANGED <<pass_pos, objectives, max_sharpness, target_left_eye,
                                   orb_target_left_eye, only_rgb_net_frames, ledVars,
                                   mirror_offsets>>
               ELSE /\ SetNextObjective
                    /\ mirror_offsets' = Append(mirror_offsets, Unwrap(mirror_offset))
                    /\ pc' = "run"
                    /\ pass_pos' = PosIrEyeCamera
            /\ UNCHANGED <<timed_out, slotVars, total_objectives, ir_net_enabled,
                           rgb_net_enabled, ir_net_frames, rgb_net_frames, mirror_offset,
                           enabled>>
    /\ UNCHANGED <<agentVars, output, calibrations, best_valid_seen>>
    /\ UNCHANGED <<ir_stats, unitVars>>

\* Plan::run_check after a Break of the broker loop.
RunCheck ==
    /\ pc = "check"
    /\ last' = NoCall
    /\ IF IsNone(mirror_offset)
       THEN \* orb.mirror_offset.expect("already be populated")
            /\ pc' = "panic"
            /\ UNCHANGED <<pass_pos, planVars, orbVars, ledVars>>
       ELSE /\ mirror_offsets' = Append(mirror_offsets, Unwrap(mirror_offset))
            /\ IF timed_out
               THEN /\ pc' = "post"
                    /\ UNCHANGED <<pass_pos, objectives, max_sharpness, target_left_eye,
                                   orb_target_left_eye, only_rgb_net_frames, ledVars>>
               ELSE IF objectives # <<>>
                    THEN /\ SetNextObjective
                         /\ pc' = "run"
                         /\ pass_pos' = PosIrEyeCamera
                    ELSE /\ pc' = "post"
                         /\ UNCHANGED <<pass_pos, objectives, max_sharpness, target_left_eye,
                                        orb_target_left_eye, only_rgb_net_frames, ledVars>>
            /\ UNCHANGED <<timed_out, slotVars, total_objectives, ir_net_enabled,
                           rgb_net_enabled, ir_net_frames, rgb_net_frames, mirror_offset,
                           enabled>>
    /\ UNCHANGED <<agentVars, output, calibrations, best_valid_seen>>
    /\ UNCHANGED <<ir_stats, unitVars>>

\* run_post without its final orb.stop_mirror().
PostDisabledWithoutMirror ==
    {"ir_auto_exposure", "eye_tracker", "ir_auto_focus", "distance", "thermal_camera",
     "rgb_camera", "eye_pid_controller", "ir_eye_camera", "ir_face_camera"}

\* The agent cells Plan::run_post disables, through disable_* and stop_* (the
\* thermal camera only if it is enabled).  disable_ir_net and disable_rgb_net
\* clear their flags and leave mega_agent_one and mega_agent_two alone.
PostDisabled ==
    {"ir_auto_exposure", "eye_tracker", "ir_auto_focus", "distance", "thermal_camera",
     "rgb_camera", "eye_pid_controller", "ir_eye_camera", "ir_face_camera", "mirror"}

\* Plan::run_post: the capture, continuous_calibration when there is one, the log.
RunPost ==
    /\ pc = "post"
    /\ LET capture == IntoCapture(left_ir, left_rgb, right_ir, right_rgb,
                                  self_custody_candidate_rgb) IN
       /\ calibrations' = IF IsSome(capture) THEN calibrations + 1 ELSE calibrations
       /\ output' = Some([capture |-> capture,
                          log |-> {"ir_eye_camera", "ir_face_camera", "main_mcu", "mirror"}])
    /\ ir_net_enabled' = FALSE
    /\ rgb_net_enabled' = FALSE
    /\ only_rgb_net_frames' = TRUE
    /\ enabled' = enabled \ PostDisabled
    /\ mirror_offset' = None
    /\ ir_led_wavelength' = "None"
    /\ ir_led_duration' = 0
    /\ pc' = "done"
    /\ last' = NoCall
    /\ UNCHANGED <<pass_pos, planVars, orb_target_left_eye, ir_net_frames, rgb_net_frames,
                   agentVars, best_valid_seen>>
    /\ UNCHANGED <<ir_stats, unitVars>>

\* ---------------------------------------------- Orb: sending to the models

\* send_ir_net_estimate with the pending entry pushed before try_send is
\* called, whatever its result.
send_ir_net_estimate_push_first(frame, ts, result) ==
    /\ ir_net_frames' = Append(ir_net_frames, [frame |-> frame, source_ts |-> ts])
    /\ IF result = "Ok"
       THEN one_inbox' = Append(one_inbox, [source_ts |-> ts, kind |-> "IRNet"])
       ELSE UNCHANGED one_inbox

\* Orb::send_ir_net_estimate: the pending entry is pushed only on Ok(()); a
\* full inbox drops the frame; any other error is returned (result "Closed").
send_ir_net_estimate(frame, ts, result) ==
    IF result = "Ok"
    THEN /\ one_inbox' = Append(one_inbox, [source_ts |-> ts, kind |-> "IRNet"])
         /\ ir_net_frames' = Append(ir_net_frames, [frame |-> frame, source_ts |-> ts])
    ELSE UNCHANGED <<one_inbox, ir_net_frames>>

\* The send helpers' return value with every try_send error swallowed.
SendReturnsAnyErrorAsOk(result) == "Ok"

\* The value the send helpers return for a try_send result: Err (bail!) only
\* for an error that is not is_full().
SendReturns(result) == IF result = "Closed" THEN "Err" ELSE "Ok"

\* The (frame, source_ts) pair pushed on rgb_net_frames, with (history) the eye
\* the objective targeted when the frame was handed to RGB-net.
RgbPendingEntry(frame, ts) ==
    [frame |-> frame, source_ts |-> ts, sent_for_left |-> target_left_eye]

\* Orb::send_rgb_net_estimate and Orb::send_rgb_net_face_identifier_input:
\* they differ in the input sent (kind).
send_rgb_net(frame, ts, kind, result) ==
    IF result = "Ok"
    THEN /\ two_inbox' = Append(two_inbox, [source_ts |-> ts, kind |-> kind])
         /\ rgb_net_frames' = Append(rgb_net_frames, RgbPendingEntry(frame, ts))
    ELSE UNCHANGED <<two_inbox, rgb_net_frames>>

\* Orb::is_ir_net_enabled, Orb::is_rgb_net_enabled
is_ir_net_enabled == ir_net_enabled /\ "mega_agent_one" \in enabled
is_rgb_net_enabled == rgb_net_enabled /\ "mega_agent_two" \in enabled

\* ------------------------------------------------- the broker pass

\* The IR eye camera is polled: no frame is ready, or Orb::handle_ir_eye_camera
\* gets one (the Plan's handle_ir_eye_camera is the trait's default).
PollIrEyeCamera ==
    /\ pc = "run" /\ pass_pos = PosIrEyeCamera
    /\ pass_pos' = PosRgbCamera
    /\ \/ /\ last' = NoCall
          /\ UNCHANGED <<pc, clock, one_inbox, ir_net_frames, ir_stats>>
       \/ /\ clock < MaxFrames
          /\ clock' = clock + 1
          /\ IF is_ir_net_enabled
             THEN \E result \in TrySendResults(one_inbox) :
                     /\ send_ir_net_estimate(clock', clock', result)
                     /\ pc' = IF SendReturns(result) = "Err" THEN "error" ELSE pc
                     /\ last' = [op |-> "handle_ir_eye_camera", source_ts |-> clock',
                                 result |-> result, returned |-> SendReturns(result)]
                     /\ ir_stats' =
                           [ir_stats EXCEPT
                              !.sent = IF result = "Ok" THEN @ + 1 ELSE @,
                              !.dropped = @ \/ result = "Full"]
             ELSE /\ UNCHANGED <<pc, one_inbox, ir_net_frames, ir_stats>>
                  /\ last' = [op |-> "handle_ir_eye_camera", source_ts |-> clock',
                              result |-> "NotSent", returned |-> "Ok"]
    /\ UNCHANGED <<planVars, orb_target_left_eye, only_rgb_net_frames, ir_net_enabled,
                   rgb_net_enabled, rgb_net_frames, mirror_offset, enabled, one_out,
                   two_inbox, two_out, output, calibrations, best_valid_seen>>
    /\ UNCHANGED unitVars
    /\ UNCHANGED ledVars

\* The RGB camera is polled: Orb::handle_rgb_camera sends an RGB-net request or
\* the fused RGB-net + face-identifier request.
PollRgbCamera ==
    /\ pc = "run" /\ pass_pos = PosRgbCamera
    /\ pass_pos' = PosMegaAgentOne
    /\ \/ /\ last' = NoCall
          /\ UNCHANGED <<pc, clock, two_inbox, rgb_net_frames>>
       \/ /\ clock < MaxFrames
          /\ clock' = clock + 1
          /\ IF is_rgb_net_enabled
             THEN \E result \in TrySendResults(two_inbox) :
                     /\ IF only_rgb_net_frames
                        THEN send_rgb_net(clock', clock', "RgbNet", result)
                        ELSE send_rgb_net(clock', clock', "FusionRgbNetFaceIdentifier", result)
                     /\ pc' = IF SendReturns(result) = "Err" THEN "error" ELSE pc
                     /\ last' = [op |-> "handle_rgb_camera", source_ts |-> clock',
                                 result |-> result, returned |-> SendReturns(result)]
             ELSE /\ UNCHANGED <<pc, two_inbox, rgb_net_frames>>
                  /\ last' = [op |-> "handle_rgb_camera", source_ts |-> clock',
                              result |-> "NotSent", returned |-> "Ok"]
    /\ UNCHANGED <<planVars, orb_target_left_eye, only_rgb_net_frames, ir_net_enabled,
                   rgb_net_enabled, ir_net_frames, mirror_offset, enabled, one_inbox,
                   one_out, two_out, output, calibrations, best_valid_seen>>
    /\ UNCHANGED <<ir_stats, unitVars>>
    /\ UNCHANGED ledVars

\* The agents handle_ir_net sends a paired estimate to when they are enabled,
\* and those pre_handle_rgb_net_estimate sends one to whatever its content.
IrNetDerived == {"image_notary", "ir_auto_focus", "eye_pid_controller", "distance"}
RgbNetDerived == {"image_notary", "distance"}

\* Orb::handle_ir_net, which ends in Plan::handle_ir_net unless no frame is found.
\* The estimate's fields and the frame's mean are opaque to the broker until
\* here, so they are drawn here.
Orb_handle_ir_net(out) ==
    IF out.kind = "Estimate"
    THEN LET r == RestoreFrame(ir_net_frames, out.source_ts) IN
         /\ ir_net_frames' = r.rest
         /\ IF IsSome(r.entry)
            THEN \E estimate \in IrEstimates, mean \in Means :
                    LET frame == [id |-> Unwrap(r.entry).frame, mean |-> mean]
                        value == [kind |-> "Estimate", estimate |-> estimate] IN
                    /\ Plan_handle_ir_net(value, Some(frame))
                    /\ last' = [op |-> "handle_ir_net", source_ts |-> out.source_ts,
                                restored |-> r.entry, plan |-> TRUE, value |-> value,
                                frame |-> Some(frame), flow |-> "Continue",
                                forwarded |-> IrNetDerived \cap enabled,
                                ux |-> IF PassesSideGate(estimate, target_left_eye)
                                       THEN UpdateUxPattern(Len(objectives), total_objectives)
                                       ELSE "not called"]
                    /\ ir_stats' = [ir_stats EXCEPT !.paired = @ + 1]
            ELSE /\ UNCHANGED planVars
                 /\ ir_stats' = [ir_stats EXCEPT !.missed = @ + 1]
                 /\ last' = [op |-> "handle_ir_net", source_ts |-> out.source_ts,
                             restored |-> None, plan |-> FALSE, value |-> [kind |-> "Estimate"],
                             frame |-> None, flow |-> "Continue", forwarded |-> {}]
    ELSE /\ UNCHANGED <<ir_net_frames, ir_stats>>
         /\ Plan_handle_ir_net([kind |-> out.kind], None)
         /\ last' = [op |-> "handle_ir_net", source_ts |-> out.source_ts,
                     restored |-> None, plan |-> TRUE, value |-> [kind |-> out.kind],
                     frame |-> None, flow |-> "Continue", forwarded |-> {}]

\* mega_agent_one is polled: Orb::handle_mega_agent_one on its next output.
PollMegaAgentOne ==
    /\ pc = "run" /\ pass_pos = PosMegaAgentOne
    /\ pass_pos' = PosMegaAgentTwo
    /\ \/ /\ one_out = <<>>
          /\ last' = NoCall
          /\ UNCHANGED <<one_out, ir_net_frames, planVars, ir_stats>>
       \/ /\ one_out # <<>>
          /\ one_out' = Tail(one_out)
          /\ Orb_handle_ir_net(Head(one_out))
    /\ UNCHANGED <<pc, orb_target_left_eye, only_rgb_net_frames, ir_net_enabled,
                   rgb_net_enabled, rgb_net_frames, mirror_offset, enabled, clock,
                   one_inbox, two_inbox, two_out, output, calibrations, best_valid_seen>>
    /\ UNCHANGED unitVars
    /\ UNCHANGED ledVars

\* Orb::handle_rgb_net, which ends in Plan::handle_rgb_net unless no frame is found.
Orb_handle_rgb_net(source_ts, is_estimate) ==
    IF is_estimate
    THEN LET r == RestoreFrame(rgb_net_frames, source_ts) IN
         /\ rgb_net_frames' = r.rest
         /\ IF IsSome(r.entry)
            THEN \E estimate \in RgbEstimates :
                    LET frame == [id |-> Unwrap(r.entry).frame]
                        value == [kind |-> "Estimate", estimate |-> estimate] IN
                    /\ Plan_handle_rgb_net(value, Some(frame))
                    /\ last' = [op |-> "handle_rgb_net", source_ts |-> source_ts,
                                restored |-> r.entry, plan |-> TRUE, value |-> value,
                                frame |-> Some(frame), flow |-> "Continue",
                                forwarded |-> RgbNetDerived \cap enabled]
            ELSE /\ UNCHANGED <<left_rgb, right_rgb>>
                 /\ last' = [op |-> "handle_rgb_net", source_ts |-> source_ts,
                             restored |-> None, plan |-> FALSE, value |-> [kind |-> "Estimate"],
                             frame |-> None, flow |-> "Continue", forwarded |-> {}]
    ELSE /\ UNCHANGED rgb_net_frames
         /\ Plan_handle_rgb_net([kind |-> "Error"], None)
         /\ last' = [op |-> "handle_rgb_net", source_ts |-> source_ts,
                     restored |-> None, plan |-> TRUE, value |-> [kind |-> "Error"],
                     frame |-> None, flow |-> "Continue", forwarded |-> {}]

\* The history kept beside Plan::handle_face_identifier.
SeeFace(out, frame) ==
    IF /\ FaceIsValid(out) /\ IsSome(out.score)
       /\ (IsNone(best_valid_seen)
           \/ Unwrap(out.score) > Unwrap(Unwrap(best_valid_seen).estimate.score))
    THEN best_valid_seen' = Some(FrameInfo(out, frame))
    ELSE UNCHANGED best_valid_seen

\* Orb::handle_fusion_rgb_net_face_identifier: one frame is restored, then
\* Plan::handle_rgb_net (which returns Continue) and Plan::handle_face_identifier
\* get it.  An empty queue is the handler's unreachable!().
Orb_handle_fusion(source_ts) ==
    LET r == RestoreFrameFusion(rgb_net_frames, source_ts) IN
    /\ rgb_net_frames' = r.rest
    /\ IF IsSome(r.entry)
       THEN \E rn_output \in RgbEstimates, fi_output \in FaceOutputs :
               LET frame == [id |-> Unwrap(r.entry).frame]
                   rn == [kind |-> "Estimate", estimate |-> rn_output]
                   fi == [kind |-> "IsValidImage", output |-> fi_output] IN
               /\ Plan_handle_rgb_net(rn, Some(frame))
               /\ Plan_handle_face_identifier(fi, Some(frame))
               /\ SeeFace(fi_output, frame)
               /\ last' = [op |-> "handle_fusion", source_ts |-> source_ts,
                           restored |-> r.entry, plan |-> TRUE, value |-> rn, fi |-> fi,
                           frame |-> Some(frame), flow |-> "Continue"]
               /\ UNCHANGED pc
       ELSE /\ pc' = "panic"
            /\ last' = NoCall
            /\ UNCHANGED <<left_rgb, right_rgb, self_custody_candidate_rgb,
                           only_rgb_net_frames, best_valid_seen>>

\* Orb::handle_mega_agent_two on one output.  A FusionError carries the RGB-net
\* part rne (None, an error or an estimate) and the face-identifier part, which
\* is None or an error and changes nothing.
Orb_handle_mega_agent_two(out) ==
    IF out.kind = "FusionRgbNetFaceIdentifier"
    THEN Orb_handle_fusion(out.source_ts)
    ELSE /\ IF out.kind = "FusionError" /\ out.rne = "None"
            THEN /\ UNCHANGED <<rgb_net_frames, left_rgb, right_rgb>>
                 /\ last' = NoCall
            ELSE Orb_handle_rgb_net(out.source_ts, out.rne = "Estimate")
         /\ UNCHANGED <<pc, self_custody_candidate_rgb, only_rgb_net_frames,
                        best_valid_seen>>

\* mega_agent_two passed over in a pass although it has an output ready.
PollMegaAgentTwoMaySkip ==
    /\ pc = "run" /\ pass_pos = PosMegaAgentTwo
    /\ pass_pos' = PosEyePid
    /\ \/ /\ last' = NoCall
          /\ UNCHANGED <<pc, two_out, rgb_net_frames, left_rgb, right_rgb,
                         self_custody_candidate_rgb, only_rgb_net_frames, best_valid_seen>>
       \/ /\ two_out # <<>>
          /\ two_out' = Tail(two_out)
          /\ Orb_handle_mega_agent_two(Head(two_out))
    /\ UNCHANGED <<objectives, target_left_eye, timed_out, left_ir, right_ir, max_sharpness,
                   total_objectives, mirror_offsets, orb_target_left_eye, ir_net_enabled,
                   rgb_net_enabled, ir_net_frames, mirror_offset, enabled, clock, one_inbox,
                   one_out, two_inbox, output, calibrations>>
    /\ UNCHANGED <<ir_stats, unitVars>>
    /\ UNCHANGED ledVars

\* mega_agent_two is polled.
PollMegaAgentTwo ==
    /\ pc = "run" /\ pass_pos = PosMegaAgentTwo
    /\ pass_pos' = PosEyePid
    /\ \/ /\ two_out = <<>>
          /\ last' = NoCall
          /\ UNCHANGED <<pc, two_out, rgb_net_frames, left_rgb, right_rgb,
                         self_custody_candidate_rgb, only_rgb_net_frames, best_valid_seen>>
       \/ /\ two_out # <<>>
          /\ two_out' = Tail(two_out)
          /\ Orb_handle_mega_agent_two(Head(two_out))
    /\ UNCHANGED <<objectives, target_left_eye, timed_out, left_ir, right_ir, max_sharpness,
                   total_objectives, mirror_offsets, orb_target_left_eye, ir_net_enabled,
                   rgb_net_enabled, ir_net_frames, mirror_offset, enabled, clock, one_inbox,
                   one_out, two_inbox, output, calibrations>>
    /\ UNCHANGED <<ir_stats, unitVars>>
    /\ UNCHANGED ledVars

\* The eye PID controller is polled: Orb::handle_eye_pid_controller stores its
\* output in mirror_offset (and sends the mirror its set point).
PollEyePid ==
    /\ pc = "run" /\ pass_pos = PosEyePid
    /\ pass_pos' = PosPollExtra
    /\ \/ /\ last' = NoCall
          /\ UNCHANGED mirror_offset
       \/ /\ "eye_pid_controller" \in enabled
          /\ \E offset \in Offsets :
                /\ mirror_offset' = Some(offset)
                /\ last' = [op |-> "handle_eye_pid_controller", value |-> offset,
                            flow |-> "Continue"]
    /\ UNCHANGED <<pc, planVars, orb_target_left_eye, only_rgb_net_frames, ir_net_enabled,
                   rgb_net_enabled, ir_net_frames, rgb_net_frames, enabled, agentVars,
                   output, calibrations, best_valid_seen>>
    /\ UNCHANGED <<ir_stats, unitVars>>
    /\ UNCHANGED ledVars

\* poll_extra with the session timer polled before the slots are looked at.
PollExtraTimerFirst ==
    /\ pc = "run" /\ pass_pos = PosPollExtra
    /\ \E fired \in BOOLEAN :
          IF fired
          THEN /\ timed_out' = TRUE
               /\ pc' = "check"
               /\ last' = [op |-> "poll_extra", flow |-> "Break", cause |-> "timeout"]
               /\ UNCHANGED pass_pos
          ELSE IF CompletionBreak(target_left_eye, left_ir, left_rgb, right_ir, right_rgb,
                                  self_custody_candidate_rgb, objectives)
               THEN /\ pc' = "check"
                    /\ last' = [op |-> "poll_extra", flow |-> "Break", cause |-> "completion"]
                    /\ UNCHANGED <<pass_pos, timed_out>>
               ELSE /\ pass_pos' = PosIrEyeCamera
                    /\ last' = [op |-> "poll_extra", flow |-> "Continue", cause |-> "none"]
                    /\ UNCHANGED <<pc, timed_out>>
    /\ UNCHANGED <<objectives, target_left_eye, slotVars, max_sharpness, total_objectives,
                   mirror_offsets, orbVars, agentVars, output, calibrations, best_valid_seen>>
    /\ UNCHANGED <<ir_stats, unitVars>>
    /\ UNCHANGED ledVars

\* Plan::poll_extra at the end of the pass (the GPS running average it keeps
\* feeds only Capture.latitude/longitude).  The session timer fires or not.
PollExtra ==
    /\ pc = "run" /\ pass_pos = PosPollExtra
    /\ IF CompletionBreak(target_left_eye, left_ir, left_rgb, right_ir, right_rgb,
                          self_custody_candidate_rgb, objectives)
       THEN /\ pc' = "check"
            /\ last' = [op |-> "poll_extra", flow |-> "Break", cause |-> "completion"]
            /\ UNCHANGED <<pass_pos, timed_out>>
       ELSE \E fired \in BOOLEAN :
               IF fired
               THEN /\ timed_out' = TRUE
                    /\ pc' = "check"
                    /\ last' = [op |-> "poll_extra", flow |-> "Break", cause |-> "timeout"]
                    /\ UNCHANGED pass_pos
               ELSE /\ pass_pos' = PosIrEyeCamera
                    /\ last' = [op |-> "poll_extra", flow |-> "Continue", cause |-> "none"]
                    /\ UNCHANGED <<pc, timed_out>>
    /\ UNCHANGED <<objectives, target_left_eye, slotVars, max_sharpness, total_objectives,
                   mirror_offsets, orbVars, agentVars, output, calibrations, best_valid_seen>>
    /\ UNCHANGED <<ir_stats, unitVars>>
    /\ UNCHANGED ledVars

\* ------------------------------------------------- the model agents

\* mega_agent_one takes the next input of its inbox and emits its output, which
\* chains the input's source_ts: an estimate, or ir_net::Output::Error.
ModelOneStep ==
    /\ pc = "run"
    /\ one_inbox # <<>>
    /\ one_inbox' = Tail(one_inbox)
    /\ \E kind \in {"Estimate", "Error"} :
          /\ one_out' = Append(one_out, [source_ts |-> Head(one_inbox).source_ts, kind |-> kind])
          /\ ir_stats' = [ir_stats EXCEPT !.errors = @ \/ kind = "Error"]
    /\ last' = NoCall
    /\ UNCHANGED <<pc, pass_pos, planVars, orbVars, clock, two_inbox, two_out, output,
                   calibrations, best_valid_seen>>
    /\ UNCHANGED unitVars
    /\ UNCHANGED ledVars

\* The outputs mega_agent_two can give for one input.
TwoOutputs(input) ==
    IF input.kind = "RgbNet"
    THEN {[source_ts |-> input.source_ts, kind |-> "RgbNet", rne |-> rne] :
              rne \in {"Estimate", "Error"}}
    ELSE {[source_ts |-> input.source_ts, kind |-> "FusionRgbNetFaceIdentifier",
           rne |-> "Estimate"]}
         \cup {[source_ts |-> input.source_ts, kind |-> "FusionError", rne |-> rne] :
                  rne \in {"None", "Error", "Estimate"}}

ModelTwoStep ==
    /\ pc = "run"
    /\ two_inbox # <<>>
    /\ two_inbox' = Tail(two_inbox)
    /\ \E out \in TwoOutputs(Head(two_inbox)) : two_out' = Append(two_out, out)
    /\ last' = NoCall
    /\ UNCHANGED <<pc, pass_pos, planVars, orbVars, clock, one_inbox, one_out, output,
                   calibrations, best_valid_seen>>
    /\ UNCHANGED <<ir_stats, unitVars>>
    /\ UNCHANGED ledVars

\* --------------------------- the fusion handler with any Plan

\* An entry of a pending queue, and queues of up to three of them in the order
\* of their timestamps.
PendingEntry(t) == [frame |-> t, source_ts |-> t]
FusionQueues ==
    {q \in UNION {[1..n -> {PendingEntry(t) : t \in 1..MaxFrames}] : n \in 0..3} :
        \A i \in 1..(Len(q) - 1) : q[i].source_ts < q[i + 1].source_ts}

\* What a Plan handler can return: Ok(Continue), Ok(Break) or Err.
HandlerResults == {"Continue", "Break", "Err"}

\* The fusion handler calling the face-identifier handler whatever the RGB-net
\* handler returned.
FusionStepsFaceAlways(sends_ok, rgb_result) ==
    <<"restore_frame", "pre_handle_rgb_net_estimate">>
    \o (IF sends_ok THEN <<"plan.handle_rgb_net", "plan.handle_face_identifier">> ELSE <<>>)

\* The steps of handle_fusion_rgb_net_face_identifier that run, in order, for
\* a frame found: the pre-dispatch sends end it with `?` if one fails, and the
\* RGB-net handler's Break or Err ends it before the face-identifier handler.
FusionSteps(sends_ok, rgb_result) ==
    <<"restore_frame", "pre_handle_rgb_net_estimate">>
    \o (IF sends_ok THEN <<"plan.handle_rgb_net">> ELSE <<>>)
    \o (IF sends_ok /\ rgb_result = "Continue" THEN <<"plan.handle_face_identifier">> ELSE <<>>)

\* What the fusion handler returns.
FusionReturns(sends_ok, rgb_result, fi_result) ==
    IF ~sends_ok THEN "Err"
    ELSE IF rgb_result # "Continue" THEN rgb_result
    ELSE fi_result

\* The fusion handler alone, on any pending queue.
InitFusion ==
    /\ pc = "fusion"
    /\ wavelengths = <<>>
    /\ objectives = <<>>
    /\ total_objectives = 0
    /\ mirror_offsets = <<>>
    /\ thermal_camera = FALSE
    /\ state_tx = {}
    /\ InitPlan
    /\ InitCalibration
    /\ pass_pos = 0
    /\ orb_target_left_eye = FALSE
    /\ only_rgb_net_frames = FALSE
    /\ ir_net_enabled = FALSE /\ rgb_net_enabled = TRUE
    /\ ir_net_frames = <<>>
    /\ rgb_net_frames \in FusionQueues
    /\ mirror_offset = None
    /\ enabled = {"rgb_camera", "mega_agent_two"}
    /\ clock = MaxFrames
    /\ one_inbox = <<>> /\ one_out = <<>> /\ two_inbox = <<>> /\ two_out = <<>>
    /\ output = None
    /\ calibrations = 0
    /\ last = NoCall
    /\ best_valid_seen = None
    /\ ir_stats = [sent |-> 0, paired |-> 0, missed |-> 0, dropped |-> FALSE, errors |-> FALSE]
    /\ now = 0
    /\ led_occlusion = None
    /\ occlusion_since = None
    /\ ir_led_wavelength = DEFAULT_IR_LED_WAVELENGTH
    /\ ir_led_duration = DEFAULT_IR_LED_DURATION
    /\ mirror_point = None
    /\ trip = [phase |-> "idle"]

\* Orb::handle_fusion_rgb_net_face_identifier called with a Plan whose
\* handlers return what they like, for an output of any timestamp.
HandleFusion ==
    /\ pc = "fusion"
    /\ \E source_ts \in 1..MaxFrames, sends_ok \in BOOLEAN,
          rgb_result \in HandlerResults, fi_result \in HandlerResults :
          LET r == RestoreFrameFusion(rgb_net_frames, source_ts) IN
          /\ rgb_net_frames' = r.rest
          /\ IF IsSome(r.entry)
             THEN LET steps == FusionSteps(sends_ok, rgb_result)
                      frame == Some([id |-> Unwrap(r.entry).frame])
                      called(h) == \E i \in 1..Len(steps) : steps[i] = h IN
                  /\ last' = [op |-> "handle_fusion_rgb_net_face_identifier",
                              source_ts |-> source_ts, restored |-> r.entry, steps |-> steps,
                              rgb |-> IF called("plan.handle_rgb_net")
                                      THEN [called |-> TRUE, frame |-> frame,
                                            result |-> rgb_result]
                                      ELSE [called |-> FALSE],
                              fi |-> IF called("plan.handle_face_identifier")
                                     THEN [called |-> TRUE, frame |-> frame,
                                           result |-> fi_result]
                                     ELSE [called |-> FALSE],
                              returned |-> FusionReturns(sends_ok, rgb_result, fi_result)]
                  /\ UNCHANGED pc
             ELSE /\ pc' = "panic"
                  /\ last' = NoCall
    /\ UNCHANGED <<pass_pos, planVars, orb_target_left_eye, only_rgb_net_frames, ir_net_enabled,
                   rgb_net_enabled, ir_net_frames, mirror_offset, enabled, agentVars, output,
                   calibrations, best_valid_seen, ir_stats, unitVars, ledVars>>

NextFusion == HandleFusion

SpecFusion == InitFusion /\ [][NextFusion]_vars

\* ------------------------------------------------------ specification

\* Pending queues of past frames.
LateFrames == 1..(MaxFrames - 2)
PendingQueues ==
    {<<>>} \cup {<<PendingEntry(a)>> : a \in LateFrames}
           \cup {<<PendingEntry(p[1]), PendingEntry(p[2])>> :
                     p \in {q \in LateFrames \X LateFrames : q[1] < q[2]}}

\* The dispatch handlers taken alone: the broker loop of the last objective is
\* about to poll the model agents, each of which holds one plain estimate of
\* any past timestamp, against any pending queues of past frames.
InitLateEstimate ==
    /\ pc = "run"
    /\ pass_pos = PosMegaAgentOne
    /\ wavelengths = Wavelengths(1)
    /\ objectives = <<>>
    /\ total_objectives = 1
    /\ mirror_offsets = <<>>
    /\ thermal_camera = FALSE
    /\ state_tx = {}
    /\ target_left_eye \in BOOLEAN
    /\ orb_target_left_eye = target_left_eye
    /\ timed_out = FALSE
    /\ left_ir = None /\ left_rgb = None /\ right_ir = None /\ right_rgb = None
    /\ self_custody_candidate_rgb = None
    /\ max_sharpness = 0
    /\ occlusion_indicator_on_time = None
    /\ only_rgb_net_frames \in BOOLEAN
    /\ ir_net_enabled = TRUE /\ rgb_net_enabled = TRUE
    /\ ir_net_frames \in PendingQueues /\ rgb_net_frames \in PendingQueues
    /\ mirror_offset = None
    /\ enabled = PreEnabled(thermal_camera)
    /\ clock = MaxFrames - 2
    /\ one_inbox = <<>> /\ two_inbox = <<>>
    /\ \E ts \in LateFrames : one_out = <<[source_ts |-> ts, kind |-> "Estimate"]>>
    /\ \E ts \in LateFrames :
          two_out = <<[source_ts |-> ts, kind |-> "RgbNet", rne |-> "Estimate"]>>
    /\ output = None
    /\ calibrations = 0
    /\ last = NoCall
    /\ best_valid_seen = None
    /\ ir_stats = [sent |-> 0, paired |-> 0, missed |-> 0, dropped |-> FALSE, errors |-> FALSE]
    /\ now = 0
    /\ led_occlusion = None
    /\ occlusion_since = None
    /\ ir_led_wavelength = wavelengths[1].ir_led_wavelength
    /\ ir_led_duration = wavelengths[1].ir_led_duration
    /\ mirror_point = None
    /\ trip = [phase |-> "idle"]
    /\ InitCalibration

Next ==
    \/ RunPre
    \/ PollIrEyeCamera
    \/ PollRgbCamera
    \/ PollMegaAgentOne
    \/ PollMegaAgentTwo
    \/ PollEyePid
    \/ PollExtra
    \/ RunCheck
    \/ RunPost
    \/ ModelOneStep
    \/ ModelTwoStep

Spec == Init /\ [][Next]_vars

\* ------------------------------------ the session with a failing MCU

\* What an objective switch that fails at an MCU send leaves behind: the
\* objective is popped and the eye targeted; set_ir_wavelength stores the
\* wavelength only after its send, set_ir_duration is reached only if
\* set_ir_wavelength returned Ok, and only_rgb_net_frames is never reached.
SwitchFails(failing) ==
    /\ objectives' = Tail(objectives)
    /\ max_sharpness' = 0
    /\ target_left_eye' = Head(objectives).target_left_eye
    /\ orb_target_left_eye' = Head(objectives).target_left_eye
    /\ ir_led_wavelength' = IF failing = "set_ir_duration"
                            THEN Head(objectives).ir_led_wavelength ELSE ir_led_wavelength
    /\ UNCHANGED ir_led_duration
    /\ last' = [op |-> "set_next_objective", failing |-> failing, plan |-> FALSE,
                returned |-> "Err"]
    /\ pc' = "error"

\* The sends to the MCU in Plan::set_next_objective.
SwitchSends == {"set_ir_wavelength", "set_ir_duration"}

\* Plan::run_pre when an MCU send of its set_next_objective fails: `?` returns
\* the error from run_pre and from run.
RunPreSwitchFails ==
    /\ pc = "pre"
    /\ objectives # <<>>
    /\ enabled' = PreEnabled(thermal_camera)
    /\ ir_net_enabled' = TRUE
    /\ rgb_net_enabled' = TRUE
    /\ only_rgb_net_frames' = TRUE
    /\ \E failing \in SwitchSends : SwitchFails(failing)
    /\ UNCHANGED <<pass_pos, timed_out, slotVars, total_objectives, mirror_offsets,
                   ir_net_frames, rgb_net_frames, mirror_offset, agentVars, output,
                   calibrations, best_valid_seen, ir_stats, unitVars>>

\* Plan::run_check when an MCU send of its set_next_objective fails.
RunCheckSwitchFails ==
    /\ pc = "check"
    /\ IsSome(mirror_offset)
    /\ ~timed_out
    /\ objectives # <<>>
    /\ mirror_offsets' = Append(mirror_offsets, Unwrap(mirror_offset))
    /\ \E failing \in SwitchSends : SwitchFails(failing)
    /\ UNCHANGED <<pass_pos, timed_out, slotVars, total_objectives, only_rgb_net_frames,
                   ir_net_enabled, rgb_net_enabled, ir_net_frames, rgb_net_frames,
                   mirror_offset, enabled, agentVars, output, calibrations, best_valid_seen,
                   ir_stats, unitVars>>

\* What the pre-dispatch handlers of the actuator agents leave alone.  They
\* are polled between the agents the pass position follows, and the position
\* kept is that of the next of those.
mcuRest ==
    <<pass_pos, planVars, orbVars, agentVars, output, calibrations, best_valid_seen,
      ir_stats, unitVars, ir_led_wavelength>>

\* handle_ir_auto_focus going on to the Plan's handler after a refused command.
PollIrAutoFocusIgnoresMcu ==
    /\ pc = "run" /\ pass_pos = PosEyePid
    /\ "ir_auto_focus" \in enabled
    /\ \E mcu_ok \in BOOLEAN :
          /\ pc' = pc
          /\ last' = [op |-> "handle_ir_auto_focus",
                      mcu |-> IF mcu_ok THEN <<[cmd |-> "LiquidLens"]>> ELSE <<>>,
                      sent |-> <<>>, plan |-> TRUE,
                      returned |-> IF mcu_ok THEN "Ok" ELSE "Err"]
    /\ UNCHANGED <<mcuRest, ir_led_duration>>

\* ir_auto_focus is polled, after mega_agent_two and before the eye PID
\* controller: Orb::handle_ir_auto_focus sends the liquid-lens target to the
\* MCU, and only then calls the Plan (the trait's default Continue).
PollIrAutoFocus ==
    /\ pc = "run" /\ pass_pos = PosEyePid
    /\ "ir_auto_focus" \in enabled
    /\ \E mcu_ok \in BOOLEAN :
          /\ pc' = IF mcu_ok THEN pc ELSE "error"
          /\ last' = [op |-> "handle_ir_auto_focus",
                      mcu |-> IF mcu_ok THEN <<[cmd |-> "LiquidLens"]>> ELSE <<>>,
                      sent |-> <<>>, plan |-> mcu_ok,
                      returned |-> IF mcu_ok THEN "Ok" ELSE "Err"]
    /\ UNCHANGED <<mcuRest, ir_led_duration>>

\* ir_auto_exposure is polled, after ir_auto_focus: Orb::handle_ir_auto_exposure
\* as in HandleIrAutoExposure, its error ending the loop.
PollIrAutoExposure ==
    /\ pc = "run" /\ pass_pos = PosEyePid
    /\ "ir_auto_exposure" \in enabled
    /\ \E gain \in Gains, exposure \in Durations \ {0}, mcu_ok \in BOOLEAN :
       \E delivered \in 0..Len(CameraCommands(gain, exposure)) :
          LET commands == CameraCommands(gain, exposure)
              ok == delivered = Len(commands) /\ mcu_ok IN
          /\ ir_led_duration' = IF ok THEN exposure ELSE ir_led_duration
          /\ pc' = IF ok THEN pc ELSE "error"
          /\ last' = [op |-> "handle_ir_auto_exposure",
                      arg |-> [gain |-> gain, exposure |-> exposure],
                      mcu |-> IF ok THEN <<DurationCommand(ir_led_wavelength, exposure)>>
                              ELSE <<>>,
                      sent |-> SubSeq(commands, 1, delivered),
                      plan |-> FALSE,
                      returned |-> IF ok THEN "Ok" ELSE "Err"]
    /\ UNCHANGED mcuRest

\* The mirror is polled, after the eye PID controller: Orb::handle_mirror sends
\* the mirror command to the MCU, and only then calls the Plan.
PollMirror ==
    /\ pc = "run" /\ pass_pos = PosPollExtra
    /\ "mirror" \in enabled
    /\ \E mcu_ok \in BOOLEAN :
          /\ pc' = IF mcu_ok THEN pc ELSE "error"
          /\ last' = [op |-> "handle_mirror",
                      mcu |-> IF mcu_ok THEN <<[cmd |-> "Mirror"]>> ELSE <<>>,
                      sent |-> <<>>, plan |-> mcu_ok,
                      returned |-> IF mcu_ok THEN "Ok" ELSE "Err"]
    /\ UNCHANGED <<mcuRest, ir_led_duration>>

NextMcu ==
    \/ RunPre
    \/ RunPreSwitchFails
    \/ PollIrEyeCamera
    \/ PollRgbCamera
    \/ PollMegaAgentOne
    \/ PollMegaAgentTwo
    \/ PollIrAutoFocus
    \/ PollIrAutoExposure
    \/ PollEyePid
    \/ PollMirror
    \/ PollExtra
    \/ RunCheck
    \/ RunCheckSwitchFails
    \/ RunPost
    \/ ModelOneStep
    \/ ModelTwoStep

\* The session, started as in Spec or at the dispatch of a late estimate.
InitPairing == Init \/ InitLateEstimate
SpecPairing == InitPairing /\ [][Next]_vars

\* The steps of Broker::run's loop: the polls of a pass, poll_extra, and
\* run_check after a Break.
BrokerLoop ==
    \/ PollIrEyeCamera
    \/ PollRgbCamera
    \/ PollMegaAgentOne
    \/ PollMegaAgentTwo
    \/ PollEyePid
    \/ PollExtra
    \/ RunCheck

\* The sessions followed to the end of time: the left eye drawn first, no
\* thermal camera, and IR-net estimates that are all sharp and well exposed, of
\* any perceived side.  What a handler does with an estimate has no bearing on
\* which agent the pass polls next.
InitFair ==
    /\ Init
    /\ ~thermal_camera
    /\ objectives[1].target_left_eye

SharpEstimates ==
    (last'.op = "handle_ir_net" /\ last'.plan /\ last'.value.kind = "Estimate") =>
        /\ last'.value.estimate.score = MaxScore
        /\ last'.value.estimate.sharpness = MaxSharpness
        /\ Unwrap(last'.frame).mean \in IRIS_BRIGHTNESS_RANGE

NextFair ==
    \/ RunPre
    \/ PollIrEyeCamera
    \/ PollRgbCamera
    \/ (PollMegaAgentOne /\ SharpEstimates)
    \/ PollMegaAgentTwo
    \/ PollEyePid
    \/ PollExtra
    \/ RunCheck
    \/ RunPost
    \/ ModelOneStep
    \/ ModelTwoStep

\* The session with a loop that keeps running: the executor polls the broker
\* task again whenever a pass can be made.  Nothing is assumed of the model
\* agents, which may stop answering.
FairSpec == InitFair /\ [][NextFair]_vars /\ WF_vars(BrokerLoop /\ SharpEstimates)

\* poll_extra finds the session timer elapsed.
TimerFires == PollExtra /\ timed_out'

\* The session with a loop that keeps running and a finite timeout: the Sleep
\* future poll_extra polls is Ready at every poll after its deadline, so a
\* loop that polls it again and again finds it elapsed.
SpecTimeout ==
    /\ InitFair /\ [][NextFair]_vars
    /\ WF_vars(BrokerLoop /\ SharpEstimates)
    /\ SF_vars(TimerFires)

\* The session with one wavelength more than Spec allows, so that each eye has
\* objectives that follow one another; the left eye first, no thermal camera.
InitMoreWavelengths ==
    /\ pc = "pre"
    /\ wavelengths = Wavelengths(MaxWavelengths + 1)
    /\ objectives = NewObjectives(TRUE, wavelengths)
    /\ total_objectives = Len(objectives)
    /\ mirror_offsets = <<>>
    /\ thermal_camera = FALSE
    /\ state_tx = {}
    /\ InitPlan
    /\ InitOrb
    /\ InitCalibration

SpecMoreWavelengths == InitMoreWavelengths /\ [][Next]_vars

\* The session of one capture, left eye first, with an MCU that can refuse
\* any command.
SpecMcu == InitFair /\ [][NextMcu]_vars

\* ------------------------------------------------------------- claims

\* The four eye slots, for frame conditions.
eyeSlots == <<left_ir, left_rgb, right_ir, right_rgb>>

\* C1: whenever the session timeout has fired (timed_out is set), the Output
\* the session returns has capture = None.
C1_TimeoutCaptureNone ==
    (timed_out /\ IsSome(output)) => Unwrap(output).capture = None

\* C1 witness: a timed-out session returned its Output after both IR slots
\* and an RGB slot had been filled.
C1_Witness ==
    /\ timed_out /\ IsSome(output)
    /\ IsSome(left_ir) /\ IsSome(right_ir) /\ IsSome(left_rgb)

\* C2 (as claimed): once the timeout has fired, Plan::run goes on to run_check,
\* run_post and its Output; it never ends in a panic.
C2_TimeoutReachesRunPost ==
    timed_out => pc \in {"check", "post", "done"}

\* C3: run_post returns capture = Some exactly when the four eye slots and the
\* self-custody candidate are all populated, and continuous_calibration has run
\* once in a session whose capture is Some and never otherwise.
C3_CaptureIffAllPopulated ==
    /\ pc = "done" =>
          /\ IsSome(output)
          /\ IsSome(Unwrap(output).capture) <=>
                (/\ IsSome(left_ir) /\ IsSome(left_rgb) /\ IsSome(right_ir)
                 /\ IsSome(right_rgb) /\ IsSome(self_custody_candidate_rgb))
          /\ calibrations = IF IsSome(Unwrap(output).capture) THEN 1 ELSE 0
    /\ pc # "done" => (calibrations = 0 /\ IsNone(output))

\* C3 witness: a session that ended with a capture and one calibration.
C3_Witness ==
    /\ pc = "done" /\ IsSome(Unwrap(output).capture) /\ calibrations = 1

\* C4 (as claimed): an IR-net estimate whose perceived_side is not 1 while the
\* left eye is targeted, or not 0 while the right eye is, is skipped: no eye
\* slot and not max_sharpness changes.
C4_SideGateAsClaimed ==
    [][(/\ last' # last
        /\ last'.op = "handle_ir_net" /\ last'.plan /\ last'.value.kind = "Estimate"
        /\ last'.value.estimate.perceived_side # Some(IF target_left_eye THEN 1 ELSE 0))
       => UNCHANGED <<eyeSlots, max_sharpness>>]_vars

C6_RgbAcceptance ==
    [][(/\ last' # last
        /\ last'.op \in {"handle_rgb_net", "handle_fusion"} /\ last'.plan)
       => LET ok == /\ last'.value.kind = "Estimate"
                    /\ last'.value.estimate.primary # None
                    /\ Unwrap(last'.value.estimate.primary).bbox_correct
              info == [estimate |-> last'.value.estimate, frame |-> Unwrap(last'.frame)]
          IN  /\ ok /\ target_left_eye =>
                    (left_rgb' = Some(info) /\ UNCHANGED <<left_ir, right_ir, right_rgb>>)
              /\ ok /\ ~target_left_eye =>
                    (right_rgb' = Some(info) /\ UNCHANGED <<left_ir, right_ir, left_rgb>>)
              /\ ~ok => UNCHANGED eyeSlots
              /\ last'.flow = "Continue"]_vars

\* C6 witness: an RGB-net estimate with a well-formed primary bbox has just
\* been stored in the right RGB slot.
C6_Witness ==
    /\ last.op = "handle_rgb_net" /\ last.plan /\ last.value.kind = "Estimate"
    /\ ~target_left_eye
    /\ right_rgb = Some([estimate |-> last.value.estimate, frame |-> Unwrap(last.frame)])

\* C7 (as claimed): after any sequence of face-identifier outputs the
\* self-custody candidate is the valid scored output with the highest score
\* seen (the earliest on ties), and exists once one has been seen.
C7_CandidateIsBestValidSeen ==
    self_custody_candidate_rgb = best_valid_seen

\* C7 (amended): the candidate is the valid output with the highest score
\* above 0.0 seen so far (the earliest on ties); without such an output there
\* is no candidate.
C7_CandidateIsBestPositiveValidSeen ==
    IF IsSome(best_valid_seen) /\ Unwrap(Unwrap(best_valid_seen).estimate.score) > 0
    THEN self_custody_candidate_rgb = best_valid_seen
    ELSE self_custody_candidate_rgb = None

\* C7 witness: a valid output whose score ties the candidate's has just been
\* dispatched with another frame, and the earlier candidate was kept.
C7_Witness ==
    /\ last.op = "handle_fusion" /\ FaceIsValid(last.fi.output)
    /\ IsSome(self_custody_candidate_rgb)
    /\ last.fi.output.score = Unwrap(self_custody_candidate_rgb).estimate.score
    /\ Unwrap(last.frame) # Unwrap(self_custody_candidate_rgb).frame

\* C8: poll_extra returns Break for completion exactly when the targeted eye's
\* IR and RGB slots are both populated and the objective queue is not empty or
\* the candidate is populated; its only other Break is the timeout firing.
C8_PollExtraBreak ==
    last.op = "poll_extra" =>
        LET ir == IF target_left_eye THEN left_ir ELSE right_ir
            rgb == IF target_left_eye THEN left_rgb ELSE right_rgb
            complete == /\ IsSome(ir) /\ IsSome(rgb)
                        /\ (Len(objectives) > 0 \/ IsSome(self_custody_candidate_rgb))
        IN  /\ (last.cause = "completion") <=> complete
            /\ (last.flow = "Break") <=> (last.cause \in {"completion", "timeout"})
            /\ (last.cause = "timeout") <=> timed_out
            /\ (last.flow = "Break") <=> (pc = "check")

\* C8 witness: poll_extra returned Continue with the last objective current,
\* both slots of the targeted eye populated and no candidate yet.
C8_Witness ==
    /\ last.op = "poll_extra" /\ last.flow = "Continue"
    /\ objectives = <<>> /\ IsNone(self_custody_candidate_rgb)
    /\ IF target_left_eye THEN IsSome(left_ir) /\ IsSome(left_rgb)
                          ELSE IsSome(right_ir) /\ IsSome(right_rgb)

\* C9 (as claimed): in every re-pairing handler the entry recovered from the
\* pending queue carries the source_ts of the dispatched estimate.
C9_RestoredFrameMatches ==
    (last.op \in {"handle_ir_net", "handle_rgb_net", "handle_fusion"} /\ IsSome(last.restored))
        => Unwrap(last.restored).source_ts = last.source_ts

\* C10 (as claimed): each pending-frame queue is never longer than the inbox
\* capacity of its model agent.
C10_PendingBoundedByInbox ==
    /\ Len(ir_net_frames) <= InboxCap
    /\ Len(rgb_net_frames) <= InboxCap

\* C11: when a send helper's try_send finds the inbox full the helper returns
\* Ok and neither the inbox nor a pending queue changes; a pending entry
\* (frame, source_ts) is appended exactly when try_send returned Ok; any other
\* try_send error makes the helper return an error, with nothing appended.
C11_SendHelpers ==
    [][(/\ last' # last
        /\ last'.op \in {"handle_ir_eye_camera", "handle_rgb_camera"}
        /\ last'.result # "NotSent")
       => LET ir == last'.op = "handle_ir_eye_camera"
              entry == [frame |-> last'.source_ts, source_ts |-> last'.source_ts]
          IN  /\ last'.result = "Ok" =>
                    /\ IF ir
                       THEN /\ ir_net_frames' = Append(ir_net_frames, entry)
                            /\ UNCHANGED rgb_net_frames
                       ELSE /\ rgb_net_frames' =
                                  Append(rgb_net_frames,
                                         RgbPendingEntry(last'.source_ts, last'.source_ts))
                            /\ UNCHANGED ir_net_frames
                    /\ pc' = "run"
              /\ last'.result = "Full" =>
                    /\ UNCHANGED <<ir_net_frames, rgb_net_frames, one_inbox, two_inbox>>
                    /\ pc' = "run"
              /\ last'.result = "Closed" =>
                    /\ UNCHANGED <<ir_net_frames, rgb_net_frames, one_inbox, two_inbox>>
                    /\ pc' = "error"]_vars

\* C11 witness: an IR frame has just been dropped on a full inbox while an
\* earlier frame is still pending, and the loop goes on.
C11_Witness ==
    /\ last.op = "handle_ir_eye_camera" /\ last.result = "Full"
    /\ pc = "run" /\ Len(ir_net_frames) = 1

\* C12: as long as IR-net has answered every input with an estimate, no
\* pairing miss has occurred and every successful try-send is either paired
\* or still pending behind an input or output in flight; so once nothing is
\* in flight the paired estimates are as many as the successful try-sends.
C12_PairedEqualsSent ==
    ~ir_stats.errors =>
        /\ ir_stats.missed = 0
        /\ ir_stats.paired + Len(ir_net_frames) = ir_stats.sent
        /\ Len(ir_net_frames) = Len(one_inbox) + Len(one_out)

\* C12 witness: a frame was dropped on a full inbox, IR-net answered with
\* estimates only, nothing is in flight, and two estimates were paired.
C12_Witness ==
    /\ ir_stats.dropped /\ ~ir_stats.errors
    /\ one_inbox = <<>> /\ one_out = <<>>
    /\ ir_stats.paired = 2 /\ ir_stats.sent = 2

C14_NewBuildsTwoPhases ==
    pc = "pre" =>
        LET n == Len(wavelengths) IN
        /\ Len(objectives) = 2 * n
        /\ total_objectives = 2 * n
        /\ \A i \in 1..n :
              /\ objectives[i].only_rgb_net_frames
              /\ ~objectives[n + i].only_rgb_net_frames
              /\ objectives[i].target_left_eye = objectives[1].target_left_eye
              /\ objectives[n + i].target_left_eye = ~objectives[1].target_left_eye
              /\ objectives[i].ir_led_wavelength = wavelengths[i].ir_led_wavelength
              /\ objectives[i].ir_led_duration = wavelengths[i].ir_led_duration
              /\ objectives[n + i].ir_led_wavelength = wavelengths[i].ir_led_wavelength
              /\ objectives[n + i].ir_led_duration = wavelengths[i].ir_led_duration

\* C14 witness: Plan::new has run on a list of at least two different pairs and
\* drew the left eye first.
C14_Witness ==
    /\ pc = "pre"
    /\ Len(wavelengths) >= 2
    /\ wavelengths[1] # wavelengths[2]
    /\ Len(objectives) = 2 * Len(wavelengths)
    /\ objectives[1].target_left_eye

\* C15: the objective queue never grows: a run_check call that returns false
\* (the loop is entered again) shortens it by exactly one, a run_check call that
\* returns true (run_post follows) or panics leaves it as it is, and no step of
\* the broker loop (handlers, poll_extra) changes it.
C15_QueueNeverGrows ==
    [][/\ Len(objectives') <= Len(objectives)
       /\ (pc = "check" /\ pc' = "run") => Len(objectives') = Len(objectives) - 1
       /\ (pc = "check" /\ pc' # "run") => objectives' = objectives
       /\ pc = "run" => objectives' = objectives]_vars

\* C15 witness: one run_check call has returned false and popped the last
\* objective, and the loop runs again.
C15_Witness ==
    pc = "run" /\ Len(mirror_offsets) = 1 /\ objectives = <<>> /\ total_objectives > 0

\* An objective switch: set_next_objective popped an objective, in run_pre or
\* in a run_check call that returns false.
ObjectiveSwitch == pc \in {"pre", "check"} /\ pc' = "run"

\* C16: between two objective switches max_sharpness never decreases: an
\* IR-net estimate that passes the side gate makes it the maximum of its value
\* and the estimate's sharpness, nothing else changes it, and only an objective
\* switch resets it to 0.
C16_MaxSharpnessMonotonic ==
    [][IF ObjectiveSwitch
       THEN max_sharpness' = 0
       ELSE /\ max_sharpness' >= max_sharpness
            /\ IF /\ last'.op = "handle_ir_net" /\ last'.value.kind = "Estimate" /\ last'.plan
                  /\ PassesSideGate(last'.value.estimate, target_left_eye)
               THEN max_sharpness' =
                        IF last'.value.estimate.sharpness >= max_sharpness
                        THEN last'.value.estimate.sharpness ELSE max_sharpness
               ELSE max_sharpness' = max_sharpness]_vars

\* C16 witness: an estimate that passed the side gate with a sharpness below
\* max_sharpness has been handled, and max_sharpness kept its value.
C16_Witness ==
    /\ last.op = "handle_ir_net" /\ last.value.kind = "Estimate" /\ last.plan
    /\ PassesSideGate(last.value.estimate, target_left_eye)
    /\ last.value.estimate.sharpness < max_sharpness

\* C17: once an update_occlusion call has turned the occlusion indicator on,
\* no update_occlusion call made less than 450 ms after that call turns it off,
\* whatever the filter returns in between.
C17_IndicatorHeldOn ==
    [][(led_occlusion = Some(TRUE) /\ led_occlusion' = Some(FALSE)) =>
           now' - Unwrap(occlusion_since) >= 450]_vars

\* C17 witness: the indicator is on, was turned on less than 450 ms ago in an
\* earlier call, and the call just made saw a filtered value above both
\* thresholds.
C17_Witness ==
    /\ pc = "occlusion"
    /\ led_occlusion = Some(TRUE)
    /\ last.op = "update_occlusion" /\ last.low_pass = 1050
    /\ now > Unwrap(occlusion_since)
    /\ now - Unwrap(occlusion_since) < 450

\* The values of least magnitude among the samples' a-components.
LeastMagnitude(samples, a) ==
    {samples[i][a] : i \in {i \in 1..Len(samples) :
                                \A j \in 1..Len(samples) : Abs(samples[i][a]) <= Abs(samples[j][a])}}

\* C19: continuous_calibration adds to the horizontal offset the horizontal
\* sample of least magnitude times the reducer, and to the vertical offset the
\* vertical sample of least magnitude times the reducer, each minimum taken on
\* its own and with its sign; for (+0.3,+0.5), (-0.1,+0.2), (+0.05,+0.9) it adds
\* (+0.05 x reducer, +0.2 x reducer); a sample of magnitude zero on an axis
\* leaves that axis' offset as it was; the result is what is stored.
C19_AddsLeastMagnitude ==
    [][(pc = "calibrate" /\ mirror_offsets # <<>>) =>
          LET dh == calibration'.horizontal_offset - calibration.horizontal_offset
              dv == calibration'.vertical_offset - calibration.vertical_offset IN
          /\ dh \in {h * CONTINUOUS_CALIBRATION_REDUCER :
                         h \in LeastMagnitude(mirror_offsets, "horizontal")}
          /\ dv \in {v * CONTINUOUS_CALIBRATION_REDUCER :
                         v \in LeastMagnitude(mirror_offsets, "vertical")}
          /\ mirror_offsets = <<[horizontal |-> 30, vertical |-> 50],
                                 [horizontal |-> -10, vertical |-> 20],
                                 [horizontal |-> 5, vertical |-> 90]>>
                => (dh = 5 * CONTINUOUS_CALIBRATION_REDUCER
                    /\ dv = 20 * CONTINUOUS_CALIBRATION_REDUCER)
          /\ (\E i \in 1..Len(mirror_offsets) : mirror_offsets[i].horizontal = 0) => dh = 0
          /\ (\E i \in 1..Len(mirror_offsets) : mirror_offsets[i].vertical = 0) => dv = 0
          /\ stored_calibration' = Some(calibration')]_vars

\* C19 witness: continuous_calibration has run on the three samples of the
\* claim, from a calibration that was not zero.
C19_Witness ==
    /\ pc = "done"
    /\ mirror_offsets = <<[horizontal |-> 30, vertical |-> 50],
                          [horizontal |-> -10, vertical |-> 20],
                          [horizontal |-> 5, vertical |-> 90]>>
    /\ calibration = [horizontal_offset |-> 1000 + 5 * CONTINUOUS_CALIBRATION_REDUCER,
                      vertical_offset |-> -1000 + 20 * CONTINUOUS_CALIBRATION_REDUCER]
    /\ stored_calibration = Some(calibration)

\* C20 (as claimed): called with fewer than two samples, continuous_calibration
\* panics and neither changes nor stores the calibration.
C20_PanicsBelowTwoSamples ==
    [][(pc = "calibrate" /\ Len(mirror_offsets) < 2) =>
          /\ pc' = "panic"
          /\ calibration' = calibration
          /\ stored_calibration' = stored_calibration]_vars

\* The output with timestamp ts waits in the output channel ch.
InChannel(ch, ts) == \E i \in 1..Len(ch) : ch[i].source_ts = ts

TripFromDisabled ==
    /\ trip.phase = "restored"
    /\ trip.on \in CellAgents => trip.on \notin trip.before.enabled
    /\ trip.on = "ir_net" => ~trip.before.ir_net_enabled
    /\ trip.on = "rgb_net" => ~trip.before.rgb_net_enabled

C22_SetIrWavelengthTwice ==
    [][(/\ last.op = "set_ir_wavelength" /\ last.returned = "Ok"
        /\ last'.op = "set_ir_wavelength" /\ last'.returned = "Ok"
        /\ last'.arg = last.arg) =>
          /\ last.mcu = <<[cmd |-> "IrLed", value |-> last.arg]>>
          /\ last'.mcu = <<[cmd |-> "IrLed", value |-> last.arg]>>
          /\ ir_led_wavelength' = last.arg
          /\ ExposureRange(ir_led_wavelength') = ExposureRange(ir_led_wavelength)
          /\ last'.sent = last.sent
          /\ Len(last'.sent) = IF "ir_auto_exposure" \in enabled THEN 1 ELSE 0]_vars

\* C22 witness: set_ir_wavelength(L740) has returned Ok, one IrLed command sent,
\* with the auto-exposure agent enabled and sent its exposure range.
C22_Witness ==
    /\ pc = "facade"
    /\ last.op = "set_ir_wavelength" /\ last.returned = "Ok" /\ last.arg = "L740"
    /\ "ir_auto_exposure" \in enabled
    /\ Len(last.sent) = 1 /\ Len(last.mcu) = 1

IrCameras == {"ir_eye_camera", "ir_face_camera"}

\* Whether the command sequence sent has command cmd with this value for agent to.
WasSent(sent, to, cmd, value) ==
    \E i \in 1..Len(sent) : sent[i] = [to |-> to, cmd |-> cmd, value |-> value]

\* C28: after every auto-exposure output {gain, exposure} handled without
\* error, each enabled IR camera has been sent SetGain(gain) and
\* SetExposure(exposure), one IR-LED duration command with value exposure has
\* gone to the MCU, the 740 nm variant exactly when ir_led_wavelength is L740,
\* and ir_led_duration is exposure.
C28_AutoExposureApplied ==
    (last.op = "handle_ir_auto_exposure" /\ last.returned = "Ok") =>
        /\ \A c \in IrCameras \cap enabled :
              /\ WasSent(last.sent, c, "SetGain", last.arg.gain)
              /\ WasSent(last.sent, c, "SetExposure", last.arg.exposure)
        /\ Len(last.mcu) = 1
        /\ last.mcu[1].value = last.arg.exposure
        /\ last.mcu[1].cmd \in {"IrLedDuration", "IrLedDuration740nm"}
        /\ last.mcu[1].cmd = "IrLedDuration740nm" <=> ir_led_wavelength = "L740"
        /\ ir_led_duration = last.arg.exposure

\* C28 witness: an auto-exposure output has been handled without error with
\* both IR cameras enabled and the 740 nm LED active.
C28_Witness ==
    /\ last.op = "handle_ir_auto_exposure" /\ last.returned = "Ok"
    /\ IrCameras \subseteq enabled
    /\ ir_led_wavelength = "L740"
    /\ last.arg.exposure = 20
    /\ Len(last.sent) = 4

MirrorOutputHandled ==
    /\ last.op \in {"handle_eye_tracker", "handle_eye_pid_controller"}
    /\ last.returned = "Ok"
    /\ "mirror" \in enabled

OrZero(option) == IF IsSome(option) THEN Unwrap(option) ELSE 0

\* The one SetPoint command to the mirror with this value.
OneSetPoint(value) == <<[to |-> "mirror", cmd |-> "SetPoint", value |-> value]>>

\* C29 as stated: while the mirror is enabled, every eye-tracker output and
\* every eye-PID output handled results in exactly one SetPoint whose value is
\* the stored mirror_point plus the stored mirror_offset, a missing one
\* counting as zero.
C29_EveryOutputSetsPoint ==
    MirrorOutputHandled => last.sent = OneSetPoint(OrZero(mirror_point) + OrZero(mirror_offset))

\* C29, amended: the output is stored whether or not the send succeeds; while
\* the mirror is enabled an eye-tracker output handled results in exactly one
\* SetPoint of mirror_point plus mirror_offset (zero if none is stored), and an
\* eye-PID output handled results in exactly one SetPoint of mirror_point plus
\* mirror_offset if a mirror_point is stored and in no command at all if none is.
C29_SetPointNeedsMirrorPoint ==
    /\ last.op = "handle_eye_tracker" => mirror_point = Some(last.arg)
    /\ last.op = "handle_eye_pid_controller" => mirror_offset = Some(last.arg)
    /\ MirrorOutputHandled =>
          last.sent = IF IsSome(mirror_point)
                      THEN OneSetPoint(Unwrap(mirror_point) + OrZero(mirror_offset))
                      ELSE <<>>

\* C29 witness: with the mirror enabled, an eye-PID output has been handled
\* while no mirror_point was stored, and nothing was sent.
C29_Witness ==
    /\ MirrorOutputHandled
    /\ last.op = "handle_eye_pid_controller"
    /\ IsNone(mirror_point)
    /\ last.sent = <<>>

\* The filtered value lies in [0.975, 1.025) x THRESHOLD_OCCLUSION_30.
InBand(v) == THRESHOLD_OCCLUSION_30 * 975 <= v * 1000 /\ v * 1000 < THRESHOLD_OCCLUSION_30 * 1025

\* C27: an update_occlusion call with filtered value v turns the indicator on
\* from off exactly when v < THRESHOLD x 0.975; from on it leaves it on exactly
\* when v < THRESHOLD x 1.025 or less than 450 ms have passed since it turned
\* on; a value in [0.975, 1.025) x THRESHOLD never changes the state.
C27_TwoThresholdHysteresis ==
    [][LET v == last'.low_pass
           was_on == IsSome(occlusion_indicator_on_time)
           is_on == led_occlusion' = Some(TRUE) IN
       /\ is_on <=> IsSome(occlusion_indicator_on_time')
       /\ ~was_on => (is_on <=> v * 1000 < THRESHOLD_OCCLUSION_30 * 975)
       /\ was_on => (is_on <=> \/ v * 1000 < THRESHOLD_OCCLUSION_30 * 1025
                               \/ now' - Unwrap(occlusion_since) < 450)
       /\ InBand(v) => (is_on <=> was_on)]_vars

\* C27 witness: the indicator has been on for 450 ms or more and the call just
\* made, with a value between the two thresholds, left it on.
C27_Witness ==
    /\ pc = "occlusion"
    /\ led_occlusion = Some(TRUE)
    /\ last.op = "update_occlusion" /\ last.low_pass = 1000
    /\ now - Unwrap(occlusion_since) >= 450

\* C23: shutdown runs the power-down melody, the config store, the filesystem
\* sync, the MCU Shutdown command, the supervisor schedule and the process exit
\* in this order, and if storing the config or sending the MCU Shutdown fails
\* it still proceeds to the process exit.
C23_ShutdownAlwaysExits ==
    last.op = "shutdown" =>
        /\ \E n \in 0..Len(ShutdownSteps) : last.steps = SubSeq(ShutdownSteps, 1, n)
        /\ last.arg \in {"store", "mcu_shutdown"} => pc = "exited"

\* The entries a step takes from the front of a pending queue.
Removed(q, q2) == IF Len(q2) < Len(q) THEN SubSeq(q, 1, Len(q) - Len(q2)) ELSE <<>>

\* The step takes entries from the queue only as the dispatch of an estimate
\* that carries the timestamp of the last entry taken, which is returned as its
\* frame; the entries taken before it are older, those behind it all stay.
LeavesByPairing(q, q2, l) ==
    LET gone == Removed(q, q2) IN
    gone # <<>> =>
        /\ q2 = SubSeq(q, Len(gone) + 1, Len(q))
        /\ l.op \in {"handle_ir_net", "handle_rgb_net", "handle_fusion"}
        /\ l.restored = Some(gone[Len(gone)])
        /\ gone[Len(gone)].source_ts = l.source_ts
        /\ \A i \in 1..(Len(gone) - 1) : gone[i].source_ts < l.source_ts

\* C24: an entry leaves a pending queue only when an estimate with its
\* timestamp is dispatched, the entry being returned as that estimate's frame,
\* or when an estimate matching a later entry is dispatched, the entry being
\* discarded as stale; the entries behind the matched one stay.
C24_EntriesLeaveOnlyByPairing ==
    [][/\ LeavesByPairing(ir_net_frames, ir_net_frames', last')
       /\ LeavesByPairing(rgb_net_frames, rgb_net_frames', last')]_vars

\* A fusion output is next in mega_agent_two's channel when it is polled.
FusionDue ==
    /\ pc = "run" /\ pass_pos = PosMegaAgentTwo
    /\ two_out # <<>>
    /\ Head(two_out).kind = "FusionRgbNetFaceIdentifier"

\* The handler call recorded is a pairing miss of a plain estimate.
PairingMiss(l) ==
    /\ l.op \in {"handle_ir_net", "handle_rgb_net"}
    /\ l.value.kind = "Estimate"
    /\ IsNone(l.restored)

\* C25: a pairing miss of an IR-net or plain RGB-net estimate is absorbed: the
\* handler returns Continue, the Plan's handler is not called and nothing of
\* the Plan changes, and the estimate is forwarded to no agent.  Whenever a
\* fusion output is dispatched the RGB pending queue is not empty, so the
\* fusion handler never fails to find a frame.
C25_MissAbsorbedFusionFinds ==
    [][/\ PairingMiss(last') =>
             /\ last'.flow = "Continue" /\ pc' = pc
             /\ ~last'.plan /\ UNCHANGED planVars
             /\ last'.forwarded = {}
             /\ UNCHANGED <<one_inbox, two_inbox>>
       /\ (FusionDue /\ two_out' = Tail(two_out)) =>
             /\ rgb_net_frames # <<>>
             /\ last'.op = "handle_fusion" /\ IsSome(last'.restored)
             /\ pc' = pc]_vars

\* C25 witness: after an IR-net estimate found no pending frame and was
\* absorbed, a fusion output has been dispatched with a frame.
C25_Witness ==
    /\ ir_stats.missed > 0
    /\ last.op = "handle_fusion"
    /\ IsSome(last.restored)

\* The fusion handler has been called and found a frame.
FusionHandled == last.op = "handle_fusion_rgb_net_face_identifier"

\* C26: for a fusion output one RGB frame is re-paired, then the RGB
\* pre-dispatch runs, then the Plan's RGB-net handler is called, and the Plan's
\* face-identifier handler is called after it, with the same frame, if and only
\* if the RGB-net handler returned Continue; if it returned Break the
\* face-identifier handler is not called and Break is returned.
C26_FusionOrder ==
    FusionHandled =>
        /\ \E n \in 2..4 :
              last.steps = SubSeq(<<"restore_frame", "pre_handle_rgb_net_estimate",
                                   "plan.handle_rgb_net", "plan.handle_face_identifier">>, 1, n)
        /\ last.rgb.called => last.rgb.frame = Some([id |-> Unwrap(last.restored).frame])
        /\ last.fi.called <=> (last.rgb.called /\ last.rgb.result = "Continue")
        /\ last.fi.called => (last.fi.frame = last.rgb.frame /\ last.returned = last.fi.result)
        /\ (last.rgb.called /\ last.rgb.result = "Break") =>
              (~last.fi.called /\ last.returned = "Break")

\* C26 witness: the Plan's RGB-net handler returned Break for a fusion output
\* and the handler returned Break after three steps.
C26_Witness ==
    /\ FusionHandled
    /\ last.rgb.called /\ last.rgb.result = "Break"
    /\ Len(last.steps) = 3
    /\ last.returned = "Break"

\* The operations that send a command to the MCU before anything else of
\* theirs is done: the pre-dispatch handlers and the objective switch.
McuOps ==
    {"handle_ir_auto_focus", "handle_ir_auto_exposure", "handle_mirror", "set_next_objective"}

\* C30: if an MCU send fails in a pre-dispatch handler (liquid-lens target,
\* mirror command, IR-LED duration) or in an objective switch, the error leaves
\* Plan::run: the Plan's handler for that output is not called, run returns no
\* Output, and nothing more is dispatched or done after the error.
C30_McuFailureEndsRun ==
    [][/\ (last'.op \in McuOps /\ last'.returned = "Err") =>
             /\ pc' = "error"
             /\ ~last'.plan
             /\ output' = None
             /\ UNCHANGED <<slotVars, agentVars>>
       /\ pc # "error"]_vars

\* C30 witness: the liquid-lens command was refused by the MCU while both
\* model agents had an output waiting, and run has ended in the error.
C30_Witness ==
    /\ pc = "error"
    /\ last.op = "handle_ir_auto_focus" /\ last.returned = "Err"
    /\ one_out # <<>> /\ two_out # <<>>
    /\ output = None

\* update_ux has run in the handler call recorded.
UxUpdated == last.op = "handle_ir_net" /\ last.plan /\ last.value.kind = "Estimate"
             /\ last.ux # "not called"

\* C31: when update_ux runs while the last objective is current (the queue is
\* empty) it triggers the pattern for all objectives completed.
C31_LastObjectiveShowsAll ==
    (UxUpdated /\ objectives = <<>>) => last.ux = "all_objectives_completed"

\* C32: update_ux triggers the pattern for half of the objectives completed
\* only when the number of completed objectives, total_objectives minus the
\* queue length minus one, is at least total_objectives / 2.
C32_HalfOnlyAfterHalf ==
    (UxUpdated /\ last.ux = "half_objectives_completed") =>
        total_objectives - Len(objectives) - 1 >= total_objectives \div 2

\* The face-identifier handler has just set orb.only_rgb_net_frames to true:
\* it does so for every output that is_valid.
FaceSwitchedToRgbOnly == last.op = "handle_fusion" /\ FaceIsValid(last.fi.output)

\* C33: whenever the face-identifier handler has set only_rgb_net_frames to
\* true a self-custody candidate is populated, so fused requests are never
\* stopped while a candidate is still missing.
C33_RgbOnlyOnlyOnAcceptance ==
    FaceSwitchedToRgbOnly =>
        /\ only_rgb_net_frames
        /\ IsSome(self_custody_candidate_rgb)

\* The current objective targets the same eye as the one before it: it is
\* neither the first of the session nor the first of the second eye.
SameEyeAsPrevious ==
    LET index == total_objectives - Len(objectives) IN
    index > 1 /\ index # Len(wavelengths) + 1

\* run_check has switched to the next objective.
Switches == pc = "check" /\ pc' = "run"

\* C34 (as claimed): set_next_objective leaves the eye slots and the candidate
\* unchanged, so under an objective that targets the same eye as the one just
\* completed poll_extra returns Break for completion at once.
C34_SameEyeBreaksAtOnce ==
    [][/\ Switches => UNCHANGED slotVars
       /\ (last'.op = "poll_extra" /\ SameEyeAsPrevious) => last'.cause = "completion"]_vars

\* C34 (amended): set_next_objective leaves the eye slots and the candidate
\* unchanged; right after a switch to an objective of the same eye the targeted
\* slots are both populated, and poll_extra under such an objective returns
\* Break for completion exactly when the objective is not the last one or the
\* candidate is populated.
C34_SameEyeBreaksUnlessLast ==
    [][/\ Switches => UNCHANGED slotVars
       /\ (Switches /\ target_left_eye' = target_left_eye) =>
             LET t == TargetSlots(target_left_eye', left_ir', left_rgb', right_ir', right_rgb')
             IN  IsSome(t.ir) /\ IsSome(t.rgb)
       /\ (last'.op = "poll_extra" /\ SameEyeAsPrevious) =>
             (last'.cause = "completion"
                <=> (objectives # <<>> \/ IsSome(self_custody_candidate_rgb)))]_vars

\* C34 witness: poll_extra has returned Break for completion under an
\* objective of the same eye as the one before, which is not the last.
C34_Witness ==
    /\ last.op = "poll_extra" /\ last.cause = "completion"
    /\ SameEyeAsPrevious
    /\ objectives # <<>>
    /\ pc = "check"

\* Plan::handle_rgb_net has written the RGB slot of the given eye.
RgbSlotWritten(left) ==
    /\ last'.op \in {"handle_rgb_net", "handle_fusion"}
    /\ IF left THEN left_rgb' # left_rgb ELSE right_rgb' # right_rgb

\* C35: every RGB frame stored in an eye's RGB slot was handed to RGB-net
\* while that eye was the current target, so an estimate for a frame enqueued
\* before an objective switch never populates the slot of the newly targeted
\* eye.
C35_RgbSlotOfEnqueueTarget ==
    [][\A left \in BOOLEAN :
          RgbSlotWritten(left) => Unwrap(last'.restored).sent_for_left = left]_vars

\* C36: with a finite session timeout and no handler error, Plan::run leaves
\* the broker loop for good and reaches run_post, whatever the agents do.
C36_LoopReachesRunPost ==
    (pc = "run") ~> (pc \in {"post", "done", "error"})

\* The current objective is one of the first eye's, which Plan::new builds
\* with only_rgb_net_frames = true.
PhaseOneCurrent ==
    /\ pc \in {"run", "check"}
    /\ total_objectives - Len(objectives) \in 1..Len(wavelengths)

\* The requests and outputs of mega_agent_two that are fused ones.
FusedInFlight ==
    {i \in 1..Len(two_inbox) : two_inbox[i].kind = "FusionRgbNetFaceIdentifier"}
    \cup {i \in 1..Len(two_out) : two_out[i].kind # "RgbNet"}

\* C37: while an objective of the first eye is current, orb.only_rgb_net_frames
\* is true at every dispatch of an RGB frame, so no fused request is sent to
\* mega_agent_two and the self-custody candidate stays empty; the
\* enable_rgb_net(false) of run_pre causes no fused request before the first
\* objective of the second eye is loaded.
C37_PhaseOneSendsNoFusion ==
    PhaseOneCurrent =>
        /\ only_rgb_net_frames
        /\ FusedInFlight = {}
        /\ IsNone(self_custody_candidate_rgb)

\* C37 witness: under an objective of the first eye an RGB frame has been
\* dispatched and its request sent to mega_agent_two.
C37_Witness ==
    /\ PhaseOneCurrent
    /\ last.op = "handle_rgb_camera" /\ last.result = "Ok"
    /\ two_inbox # <<>>

\* run_post has invoked continuous_calibration.
Calibrates == pc = "post" /\ calibrations' # calibrations

\* C38: run_check appends exactly one mirror-offset sample per break of the
\* broker loop, before it tests for termination, and nothing else appends one;
\* so whenever run_post invokes continuous_calibration the list holds exactly
\* total_objectives = 2 * len(wavelengths) samples, which is at least two.
C38_OneSamplePerBreak ==
    [][/\ (pc = "check" /\ pc' # "panic") =>
             mirror_offsets' = Append(mirror_offsets, Unwrap(mirror_offset))
       /\ (pc # "check" \/ pc' = "panic") => UNCHANGED mirror_offsets
       /\ Calibrates =>
             /\ Len(mirror_offsets) = total_objectives
             /\ total_objectives = 2 * Len(wavelengths)
             /\ Len(mirror_offsets) >= 2
             /\ ~timed_out]_vars

\* C38 witness: the session ended after continuous_calibration, with one
\* sample per objective.
C38_Witness ==
    /\ pc = "done" /\ calibrations > 0
    /\ Len(mirror_offsets) = total_objectives

\* The recorded IR LED settings: off, and active.
LedOff == ir_led_wavelength = "None" /\ ir_led_duration = 0
LedActive == ir_led_wavelength # "None" /\ ir_led_duration # 0

\* A start or stop call of an IR camera has been made.
Started == last' # last /\ last'.op = "start_ir_camera"
Stopped == last' # last /\ last'.op = "stop_ir_camera"

\* The IR LED commands among the MCU commands of the last call.
LedCommands(mcu) ==
    SelectSeq(mcu, LAMBDA c : c.cmd \in {"IrLed", "IrLedDuration", "IrLedDuration740nm"})

DurationSetters == {"set_ir_duration", "handle_ir_auto_exposure"}
DurationSent(mcu) ==
    SelectSeq(mcu, LAMBDA c : c.cmd \in {"IrLedDuration", "IrLedDuration740nm"})

\* C40: when the MCU send of set_ir_wavelength fails, ir_led_wavelength keeps
\* its value and no exposure range is sent to auto-exposure; when the MCU
\* send of set_ir_duration fails, ir_led_duration keeps its value; when a send
\* succeeds the field takes the value sent, and nothing else writes the
\* fields: they are the values of the last IR-LED commands sent successfully.
C40_RecordedLedIsLastSent ==
    [][/\ last'.op = "set_ir_wavelength" =>
             /\ IF last'.mcu = <<>>
                THEN /\ UNCHANGED ir_led_wavelength
                     /\ last'.sent = <<>>
                     /\ last'.returned = "Err"
                ELSE /\ last'.mcu = <<[cmd |-> "IrLed", value |-> last'.arg]>>
                     /\ ir_led_wavelength' = last'.arg
             /\ UNCHANGED ir_led_duration
       /\ last'.op \in DurationSetters =>
             /\ IF DurationSent(last'.mcu) = <<>>
                THEN /\ UNCHANGED ir_led_duration
                     /\ last'.returned = "Err"
                ELSE /\ Len(DurationSent(last'.mcu)) = 1
                     /\ ir_led_duration' = DurationSent(last'.mcu)[1].value
             /\ UNCHANGED ir_led_wavelength
       /\ last'.op \notin DurationSetters \cup {"set_ir_wavelength"} =>
             UNCHANGED ledVars]_vars

\* C40 witness: set_ir_wavelength has failed at its MCU send with a
\* wavelength other than the recorded one, which is kept.
C40_Witness ==
    /\ last.op = "set_ir_wavelength" /\ last.returned = "Err"
    /\ last.mcu = <<>> /\ last.sent = <<>>
    /\ ir_led_wavelength # last.arg
    /\ "ir_auto_exposure" \in enabled

====
